---- MODULE Spec2Model ----
(***************************************************************************)
(* spacebar-bridge: the two relay loops of main.py (Bridge.loop_a,         *)
(* Bridge.loop_b), the REST request built by Discord.send_message, the     *)
(* gateway event buffer they poll and the pair store they keep (Spec);     *)
(* the threads of one gateway session of bridge/gateway.py: receiver,      *)
(* heartbeater, thread_guard, reconnect with resume, wait_online (GwSpec,  *)
(* and GwLiveSpec with the threads scheduled fairly); the receiver and     *)
(* get_messages on one buffer (BufSpec); the process around both gateways: *)
(* the wait for READY and the loops' error checks (MainSpec); both         *)
(* sessions with the one zlib inflater of the module (InfSpec); the REST   *)
(* methods of bridge/discord.py under network failures (RestSpec); and     *)
(* replace_mentions and build_message of bridge/formatter.py (FmtSpec).    *)
(*                                                                         *)
(* Python None is the string "None"; snowflakes are strings, as in the     *)
(* program.  A dict is a record whose DOMAIN is the set of keys present.   *)
(* Message text, embeds and the time-derived nonce carry no control flow   *)
(* in the relay loops and are left out of the events and request bodies.   *)
(***************************************************************************)
EXTENDS Integers, Sequences, FiniteSets, TLC

VARIABLES
    buf,      \* buf[X]: Gateway.messages_buffer of gateway X
    db,       \* db[X]: rows of pair store X (database_a / database_b)
    msgs,     \* msgs[X]: the messages that exist on backend X (the server's state)
    nextId,   \* nextId[X]: index of the next snowflake backend X hands out
    log,      \* log[X]: history of relay loop X: each event taken, with the REST call made for it
    nEvents,  \* number of dispatches so far that the bridge did not cause itself
    gw,       \* gw[X]: the fields of Gateway object X (run, wait, ready, resumable, ...)
    thr,      \* thr[X]: where each thread of gateway X stands
    ws,       \* ws[X]: self.ws of gateway X: the connection it stands for and its state
    hist,     \* hist[X]: notes on gateway X: the latest thing it did, and what its last stop still asks for
    poll,     \* poll[X]: relay loop X's call of get_messages: its position, what it returned, what was appended
    nInputs,  \* frames delivered and connection failures so far
    main,     \* the process: where Bridge.__init__ / loop_a and the loop_b thread stand
    inflator, \* the module's one zlib inflate object (gateway.py:21), used by every Gateway
    fmt       \* a call of bridge/formatter.py: the function, its arguments, what it returned

\* the relay loops' world
relayVars == <<db, msgs, nextId, log, nEvents>>

\* the gateway sessions, the process around them, and the formatter
gwVars == <<gw, thr, ws, hist, poll, nInputs, main, inflator, fmt>>

vars == <<buf, db, msgs, nextId, log, nEvents, gw, thr, ws, hist, poll, nInputs, main, inflator, fmt>>

\* ------------------------------------------------------------------ bounds

\* dispatches the bridge did not cause itself, on both gateways together: what
\* people do (post, edit, delete, react) and what a gateway delivers a second time
MaxEvents == 3

\* ---------------------------------------------------------- configuration

None == "None"

Sides == {"A", "B"}

Other(X) == IF X = "A" THEN "B" ELSE "A"

\* the bridge bot's user id on each backend, read once both gateways are ready
MyId == [A |-> "botA", B |-> "botB"]

\* a person writing on either backend
Human == "u1"

\* config["discord_guild_id"], config["spacebar_guild_id"]
GuildId == [A |-> "GA", B |-> "GB"]

\* config["bridges"]
Bridges == <<[discord_channel_id |-> "CA", spacebar_channel_id |-> "CB"]>>

\* every channel of each backend: the bridged ones and one that is not bridged
AllChannels == [A |-> {"CA", "XA"}, B |-> {"CB", "XB"}]

\* the snowflakes each backend hands out, in order
Snowflakes ==
    [A |-> <<"101", "102", "103", "104", "105", "106", "107", "108">>,
     B |-> <<"201", "202", "203", "204", "205", "206", "207", "208">>]

\* f"pair_{a}_{b}"
PairName(a, b) == <<"pair", a, b>>

SrcOf(X, bridge) ==
    IF X = "A" THEN bridge.discord_channel_id ELSE bridge.spacebar_channel_id

TgtOf(X, bridge) ==
    IF X = "A" THEN bridge.spacebar_channel_id ELSE bridge.discord_channel_id

\* self.channels_a / self.channels_b
channels(X) == {SrcOf(X, Bridges[i]) : i \in DOMAIN Bridges}

\* self.bridges_a / self.bridges_b: a later entry for the same key overwrites
bridges(X) ==
    [c \in channels(X) |->
        LET last == CHOOSE i \in DOMAIN Bridges :
                /\ SrcOf(X, Bridges[i]) = c
                /\ \A j \in DOMAIN Bridges : SrcOf(X, Bridges[j]) = c => j <= i
        IN  TgtOf(X, Bridges[last])]

\* self.bridges_a_txt / self.bridges_b_txt
bridges_txt(X) ==
    {PairName(SrcOf(X, Bridges[i]), TgtOf(X, Bridges[i])) : i \in DOMAIN Bridges}

\* ------------------------------------------------------------- pair store

add_pair(rows, pair, source_id, target_id) ==
    {r \in rows : ~(r.pair = pair /\ r.source_id = source_id)}
        \cup {[pair |-> pair, source_id |-> source_id, target_id |-> target_id]}

get_target(rows, pair, source_id) ==
    IF \E r \in rows : r.pair = pair /\ r.source_id = source_id
    THEN (CHOOSE r \in rows : r.pair = pair /\ r.source_id = source_id).target_id
    ELSE None

get_source(rows, pair, target_id) ==
    IF \E r \in rows : r.pair = pair /\ r.target_id = target_id
    THEN (CHOOSE r \in rows : r.pair = pair /\ r.target_id = target_id).source_id
    ELSE None

delete_pair(rows, pair, source_id) ==
    {r \in rows : ~(r.pair = pair /\ r.source_id = source_id)}

\* dict.get
Get(d, key) == IF key \in DOMAIN d THEN d[key] ELSE None

\* ---------------------------------------------------------------- gateway

\* get_messages that hands out the first event and leaves it in the buffer
get_messages_Peek(buffer) == [msg |-> Head(buffer), buffer |-> buffer]

\* get_messages with pop() in place of pop(0): the newest event first
get_messages_Lifo(buffer) ==
    IF Len(buffer) = 0
    THEN [msg |-> None, buffer |-> buffer]
    ELSE [msg |-> buffer[Len(buffer)], buffer |-> SubSeq(buffer, 1, Len(buffer) - 1)]

\* Gateway.get_messages: None on an empty buffer, else pop(0)
get_messages(buffer) ==
    IF Len(buffer) = 0
    THEN [msg |-> None, buffer |-> buffer]
    ELSE [msg |-> Head(buffer), buffer |-> Tail(buffer)]

\* the number the next dispatch of gateway X gets: its place in the order received
NextSeq(X) == Len(log[X]) + Len(buf[X]) + 1

\* Gateway.receiver, MESSAGE_CREATE / MESSAGE_UPDATE: the normalized message
MessageEvent(X, op, m) ==
    [op |-> op,
     seq |-> NextSeq(X),
     d |-> [id |-> m.id,
            channel_id |-> m.channel_id,
            guild_id |-> GuildId[X],
            user_id |-> m.user_id,
            referenced_message |-> m.referenced_message]]

\* Gateway.receiver, MESSAGE_DELETE: no author field
DeleteEvent(X, m) ==
    [op |-> "MESSAGE_DELETE",
     seq |-> NextSeq(X),
     d |-> [id |-> m.id, channel_id |-> m.channel_id, guild_id |-> GuildId[X]]]

\* Gateway.receiver, MESSAGE_REACTION_ADD
ReactionEvent(X, m, user_id) ==
    [op |-> "MESSAGE_REACTION_ADD",
     seq |-> NextSeq(X),
     d |-> [id |-> m.id, channel_id |-> m.channel_id, guild_id |-> GuildId[X],
            emoji |-> "e", emoji_id |-> None, user_id |-> user_id]]

\* ------------------------------------------------------------ REST client

\* send_message with reply_id and reply_channel_id swapped in message_reference
send_message_SwappedReference(channel_id, message_content, reply_id, reply_channel_id, reply_guild_id, reply_ping) ==
    LET base == [content |-> message_content, tts |-> "false", flags |-> 0]
        reference == [message_id |-> reply_channel_id, channel_id |-> reply_id,
                      guild_id |-> reply_guild_id]
    IN  IF reply_id # None /\ reply_channel_id # None
        THEN base @@ ("message_reference" :> reference)
        ELSE base

\* Discord.send_message: the request body (message_dict)
send_message(channel_id, message_content, reply_id, reply_channel_id, reply_guild_id, reply_ping) ==
    LET base == [content |-> message_content, tts |-> "false", flags |-> 0]
        reference ==
            IF reply_guild_id # None
            THEN [message_id |-> reply_id, channel_id |-> reply_channel_id,
                  guild_id |-> reply_guild_id]
            ELSE [message_id |-> reply_id, channel_id |-> reply_channel_id]
        allowed ==
            IF reply_guild_id # None
            THEN [parse |-> <<"users", "roles", "everyone">>]
            ELSE [parse |-> <<"users", "roles", "everyone">>, replied_user |-> FALSE]
    IN  IF reply_id # None /\ reply_channel_id # None
        THEN IF ~reply_ping
             THEN base @@ ("message_reference" :> reference)
                       @@ ("allowed_mentions" :> allowed)
             ELSE base @@ ("message_reference" :> reference)
        ELSE base

\* the backend's answer to POST .../messages: the new message's id on HTTP 200,
\* None on any other status or on a network error
SendResult(Y, ok) == IF ok THEN Snowflakes[Y][nextId[Y]] ELSE None

\* ------------------------------------------------------------ relay loops

\* the filter without the author test
PassesFilter_ChannelOnly(X, data) ==
    data.channel_id \in channels(X)

\* the filter comparing the author with the other backend's bot id
PassesFilter_OtherBot(X, data) ==
    /\ data.channel_id \in channels(X)
    /\ Get(data, "user_id") # MyId[Other(X)]

\* loop_a / loop_b: the test an event must pass to be relayed
PassesFilter(X, data) ==
    /\ data.channel_id \in channels(X)
    /\ Get(data, "user_id") # MyId[X]

\* reply resolution that always reads the loop's own store
TargetReferenceId_OwnStore(X, data, dbs) ==
    LET source_channel == data.channel_id
        target_channel == bridges(X)[source_channel]
    IN  IF data.referenced_message # <<>>
        THEN get_target(dbs[X], PairName(source_channel, target_channel),
                        data.referenced_message[1].id)
        ELSE None

\* loop_a / loop_b, MESSAGE_CREATE: the id the mirrored message replies to
TargetReferenceId(X, data, dbs) ==
    LET source_channel == data.channel_id
        target_channel == bridges(X)[source_channel]
    IN  IF data.referenced_message # <<>>
        THEN LET ref == data.referenced_message[1]
             IN  IF ref.user_id = MyId[X]
                 THEN get_source(dbs[Other(X)], PairName(target_channel, source_channel), ref.id)
                 ELSE get_target(dbs[X], PairName(source_channel, target_channel), ref.id)
        ELSE None

\* the mention test against the other backend's bot id
ReplyPing_OtherBot(X, data) ==
    IF data.referenced_message # <<>>
    THEN \E mention \in data.referenced_message[1].mentions : mention = MyId[Other(X)]
    ELSE TRUE

\* loop_a / loop_b, MESSAGE_CREATE: the for-else over referenced_message.mentions
ReplyPing(X, data) ==
    IF data.referenced_message # <<>>
    THEN \E mention \in data.referenced_message[1].mentions : mention = MyId[X]
    ELSE TRUE

\* the send_message call addressed to the channel the event came from
CreateCall_SourceChannel(X, data, dbs, ok) ==
    LET source_channel == data.channel_id
        target_reference_id == TargetReferenceId(X, data, dbs)
        reply_ping == ReplyPing(X, data)
    IN  [fn |-> "send_message",
         channel_id |-> source_channel,
         reply_id |-> target_reference_id,
         reply_ping |-> reply_ping,
         body |-> send_message(source_channel, "", target_reference_id, source_channel,
                               GuildId[Other(X)], reply_ping),
         ret |-> SendResult(Other(X), ok)]

\* loop_a / loop_b, MESSAGE_CREATE: the call of send_message on the other backend
CreateCall(X, data, dbs, ok) ==
    LET target_channel == bridges(X)[data.channel_id]
        target_reference_id == TargetReferenceId(X, data, dbs)
        reply_ping == ReplyPing(X, data)
    IN  [fn |-> "send_message",
         channel_id |-> target_channel,
         reply_id |-> target_reference_id,
         reply_ping |-> reply_ping,
         body |-> send_message(target_channel, "", target_reference_id, target_channel,
                               GuildId[Other(X)], reply_ping),
         ret |-> SendResult(Other(X), ok)]

\* add_pair with source and target the wrong way round
StoreAfterCreate_Swapped(X, data, rows, target_message) ==
    LET channel_pair == PairName(data.channel_id, bridges(X)[data.channel_id])
    IN  IF target_message # None /\ channel_pair \in bridges_txt(X)
        THEN add_pair(rows, channel_pair, target_message, data.id)
        ELSE rows

\* "add to db" without the test of what send_message returned
StoreAfterCreate_Unchecked(X, data, rows, target_message) ==
    LET channel_pair == PairName(data.channel_id, bridges(X)[data.channel_id])
    IN  IF channel_pair \in bridges_txt(X)
        THEN add_pair(rows, channel_pair, data.id, target_message)
        ELSE rows

\* loop_a / loop_b, MESSAGE_CREATE: "add to db"
StoreAfterCreate(X, data, rows, target_message) ==
    LET channel_pair == PairName(data.channel_id, bridges(X)[data.channel_id])
    IN  IF target_message # None /\ channel_pair \in bridges_txt(X)
        THEN add_pair(rows, channel_pair, data.id, target_message)
        ELSE rows

\* loop_a / loop_b, MESSAGE_UPDATE: the call of send_update_message, if any
UpdateCall(X, data, dbs, ok) ==
    LET target_channel == bridges(X)[data.channel_id]
        channel_pair == PairName(data.channel_id, target_channel)
        target_message == get_target(dbs[X], channel_pair, data.id)
    IN  IF channel_pair \in bridges_txt(X) /\ target_message # None
        THEN <<[fn |-> "send_update_message",
                channel_id |-> target_channel,
                message_id |-> target_message,
                ret |-> ok /\ \E m \in msgs[Other(X)] : m.id = target_message]>>
        ELSE <<>>

\* the delete branch that, finding no row in its own store, looks the id up
\* among the targets of the other direction's store
DeleteCall_BothStores(X, data, dbs, ok) ==
    LET target_channel == bridges(X)[data.channel_id]
        channel_pair == PairName(data.channel_id, target_channel)
        own == get_target(dbs[X], channel_pair, data.id)
        back == get_source(dbs[Other(X)], PairName(target_channel, data.channel_id), data.id)
        target_message == IF own # None THEN own ELSE back
    IN  IF channel_pair \in bridges_txt(X) /\ target_message # None
        THEN <<[fn |-> "send_delete_message",
                channel_id |-> target_channel,
                message_id |-> target_message,
                ret |-> ok /\ \E m \in msgs[Other(X)] : m.id = target_message]>>
        ELSE <<>>

\* loop_a / loop_b, MESSAGE_DELETE: the call of send_delete_message, if any
DeleteCall(X, data, dbs, ok) ==
    LET target_channel == bridges(X)[data.channel_id]
        channel_pair == PairName(data.channel_id, target_channel)
        target_message == get_target(dbs[X], channel_pair, data.id)
    IN  IF channel_pair \in bridges_txt(X) /\ target_message # None
        THEN <<[fn |-> "send_delete_message",
                channel_id |-> target_channel,
                message_id |-> target_message,
                ret |-> ok /\ \E m \in msgs[Other(X)] : m.id = target_message]>>
        ELSE <<>>

\* the delete branch without delete_pair
StoreAfterDelete_Keep(X, data, rows, call) == rows

\* loop_a / loop_b, MESSAGE_DELETE: delete_pair follows the REST call, whatever it returned
StoreAfterDelete(X, data, rows, call) ==
    IF call # <<>>
    THEN delete_pair(rows, PairName(data.channel_id, bridges(X)[data.channel_id]), data.id)
    ELSE rows

\* the REST call relay loop X makes for event e: <<>> or one call
RestCall(X, e, dbs, ok) ==
    IF ~PassesFilter(X, e.d) THEN <<>>
    ELSE IF e.op = "MESSAGE_CREATE" THEN <<CreateCall(X, e.d, dbs, ok)>>
    ELSE IF e.op = "MESSAGE_UPDATE" THEN UpdateCall(X, e.d, dbs, ok)
    ELSE IF e.op = "MESSAGE_DELETE" THEN DeleteCall(X, e.d, dbs, ok)
    ELSE <<>>

\* a store that forgets the pair when send_update_message returned False
StoreAfter_DropOnFailedUpdate(X, e, rows, call) ==
    IF ~PassesFilter(X, e.d) THEN rows
    ELSE IF e.op = "MESSAGE_CREATE" THEN StoreAfterCreate(X, e.d, rows, call[1].ret)
    ELSE IF e.op = "MESSAGE_DELETE" THEN StoreAfterDelete(X, e.d, rows, call)
    ELSE IF e.op = "MESSAGE_UPDATE" /\ call # <<>> /\ ~call[1].ret
         THEN delete_pair(rows, PairName(e.d.channel_id, bridges(X)[e.d.channel_id]), e.d.id)
    ELSE rows

\* pair store X after relay loop X handled event e with REST call `call`
StoreAfter(X, e, rows, call) ==
    IF ~PassesFilter(X, e.d) THEN rows
    ELSE IF e.op = "MESSAGE_CREATE" THEN StoreAfterCreate(X, e.d, rows, call[1].ret)
    ELSE IF e.op = "MESSAGE_DELETE" THEN StoreAfterDelete(X, e.d, rows, call)
    ELSE rows

\* ------------------------------------------------- the backend's reaction

\* the message a successful send_message creates on backend Y, authored by the bot
Mirror(Y, call) ==
    [id |-> call.ret,
     channel_id |-> call.channel_id,
     user_id |-> MyId[Y],
     mentions |-> {},
     referenced_message |->
        IF "message_reference" \in DOMAIN call.body
            /\ \E m \in msgs[Y] : m.id = call.body.message_reference.message_id
        THEN LET m == CHOOSE m \in msgs[Y] : m.id = call.body.message_reference.message_id
             IN  <<[id |-> m.id, user_id |-> m.user_id, mentions |-> m.mentions]>>
        ELSE <<>>]

\* messages of backend Y after it served the REST call
MsgsAfter(Y, call) ==
    IF call = <<>> THEN msgs[Y]
    ELSE IF call[1].fn = "send_message"
         THEN IF call[1].ret # None THEN msgs[Y] \cup {Mirror(Y, call[1])} ELSE msgs[Y]
    ELSE IF call[1].fn = "send_delete_message" /\ call[1].ret
         THEN {m \in msgs[Y] : m.id # call[1].message_id}
    ELSE msgs[Y]

\* gateway Y's buffer after the backend dispatched what the REST call caused
BufAfter(Y, call) ==
    IF call = <<>> THEN buf[Y]
    ELSE IF call[1].fn = "send_message"
         THEN IF call[1].ret # None
              THEN Append(buf[Y], MessageEvent(Y, "MESSAGE_CREATE", Mirror(Y, call[1])))
              ELSE buf[Y]
    ELSE IF call[1].ret
         THEN LET m == CHOOSE m \in msgs[Y] : m.id = call[1].message_id
              IN  IF call[1].fn = "send_update_message"
                  THEN Append(buf[Y], MessageEvent(Y, "MESSAGE_UPDATE", m))
                  ELSE Append(buf[Y], DeleteEvent(Y, m))
    ELSE buf[Y]

\* the pass of a loop that keeps its rows in the other direction's store
Loop_OtherStore(X) ==
    /\ Len(buf[X]) > 0
    /\ \E ok \in BOOLEAN :
        LET Y == Other(X)
            got == get_messages(buf[X])
            e == got.msg
            call == RestCall(X, e, db, ok)
        IN  /\ db' = [db EXCEPT ![Y] = StoreAfter(X, e, db[Y], call)]
            /\ msgs' = [msgs EXCEPT ![Y] = MsgsAfter(Y, call)]
            /\ buf' = [buf EXCEPT ![X] = got.buffer, ![Y] = BufAfter(Y, call)]
            /\ nextId' = [nextId EXCEPT ![Y] =
                    IF call # <<>> /\ call[1].fn = "send_message" /\ call[1].ret # None
                    THEN @ + 1 ELSE @]
            /\ log' = [log EXCEPT ![X] = Append(@, [evt |-> e, call |-> call])]
    /\ UNCHANGED <<nEvents, gwVars>>

\* one pass of the inner while of loop_a / loop_b over a non-empty buffer
Loop(X) ==
    /\ Len(buf[X]) > 0
    /\ \E ok \in BOOLEAN :
        LET Y == Other(X)
            got == get_messages(buf[X])
            e == got.msg
            call == RestCall(X, e, db, ok)
        IN  /\ db' = [db EXCEPT ![X] = StoreAfter(X, e, db[X], call)]
            /\ msgs' = [msgs EXCEPT ![Y] = MsgsAfter(Y, call)]
            /\ buf' = [buf EXCEPT ![X] = got.buffer, ![Y] = BufAfter(Y, call)]
            /\ nextId' = [nextId EXCEPT ![Y] =
                    IF call # <<>> /\ call[1].fn = "send_message" /\ call[1].ret # None
                    THEN @ + 1 ELSE @]
            /\ log' = [log EXCEPT ![X] = Append(@, [evt |-> e, call |-> call])]
    /\ UNCHANGED <<nEvents, gwVars>>

\* Bridge.loop_a
loop_a == Loop("A")

\* Bridge.loop_b
loop_b == Loop("B")

\* ------------------------------------------------------------ environment

\* the messages of backend X that sit in a bridged channel
Bridged(X) == {m \in msgs[X] : m.channel_id \in channels(X)}

\* what a person may post on backend X: a plain message in any channel, a message
\* that mentions the bot, or a reply to a message of a bridged channel
Shapes(X) ==
    {[ch |-> c, mentions |-> {}, ref |-> <<>>] : c \in AllChannels[X]}
    \cup {[ch |-> c, mentions |-> {MyId[X]}, ref |-> <<>>] : c \in channels(X)}
    \cup {[ch |-> m.channel_id, mentions |-> {},
           ref |-> <<[id |-> m.id, user_id |-> m.user_id, mentions |-> m.mentions]>>] :
          m \in Bridged(X)}

\* a person posts a message on backend X
UserCreate(X) ==
    /\ nEvents < MaxEvents
    /\ nextId[X] <= Len(Snowflakes[X])
    /\ \E shape \in Shapes(X) :
        LET m == [id |-> Snowflakes[X][nextId[X]], channel_id |-> shape.ch, user_id |-> Human,
                  mentions |-> shape.mentions, referenced_message |-> shape.ref]
        IN  /\ msgs' = [msgs EXCEPT ![X] = @ \cup {m}]
            /\ buf' = [buf EXCEPT ![X] = Append(@, MessageEvent(X, "MESSAGE_CREATE", m))]
            /\ nextId' = [nextId EXCEPT ![X] = @ + 1]
    /\ nEvents' = nEvents + 1
    /\ UNCHANGED <<db, log, gwVars>>

\* a person edits a message of their own
UserUpdate(X) ==
    /\ nEvents < MaxEvents
    /\ \E m \in Bridged(X) :
        /\ m.user_id = Human
        /\ buf' = [buf EXCEPT ![X] = Append(@, MessageEvent(X, "MESSAGE_UPDATE", m))]
    /\ nEvents' = nEvents + 1
    /\ UNCHANGED <<db, msgs, nextId, log, gwVars>>

\* a person deletes a message (their own, or any as a moderator)
UserDelete(X) ==
    /\ nEvents < MaxEvents
    /\ \E m \in Bridged(X) :
        /\ msgs' = [msgs EXCEPT ![X] = @ \ {m}]
        /\ buf' = [buf EXCEPT ![X] = Append(@, DeleteEvent(X, m))]
    /\ nEvents' = nEvents + 1
    /\ UNCHANGED <<db, nextId, log, gwVars>>

\* a person reacts to a message
UserReact(X) ==
    /\ nEvents < MaxEvents
    /\ \E m \in Bridged(X) :
        buf' = [buf EXCEPT ![X] = Append(@, ReactionEvent(X, m, Human))]
    /\ nEvents' = nEvents + 1
    /\ UNCHANGED <<db, msgs, nextId, log, gwVars>>

\* the events gateway X has received so far, handled or still buffered
Delivered(X) ==
    {log[X][i].evt : i \in DOMAIN log[X]} \cup {buf[X][i] : i \in DOMAIN buf[X]}

\* gateway X receives a message dispatch a second time (a replay after a resume)
Replay(X) ==
    /\ nEvents < MaxEvents
    /\ \E e \in Delivered(X) :
        /\ e.op \in {"MESSAGE_CREATE", "MESSAGE_UPDATE", "MESSAGE_DELETE"}
        /\ e.d.channel_id \in channels(X)
        /\ buf' = [buf EXCEPT ![X] = Append(@, [e EXCEPT !.seq = NextSeq(X)])]
    /\ nEvents' = nEvents + 1
    /\ UNCHANGED <<db, msgs, nextId, log, gwVars>>

\* -------------------------------------------------------- gateway session

\* what the network hands a session, all told: frames read by recv and attempts
\* to connect that fail
MaxInputs == 2

\* Gateway(token, host, name, compressed): Discord is compressed, Spacebar is not
compressed == [A |-> TRUE, B |-> FALSE]

\* no function of bridge/formatter.py has been called
NoCall == [fn |-> "none"]

\* zlib.decompressobj(), lines 21 and 42: an inflater that has been fed nothing
NewInflator == [st |-> "new", side |-> None, conn |-> 0]

\* the inflater after it was fed, from its making on, the frames read so far
\* on connection conn of gateway X and nothing else
InStream(X, conn) == [st |-> "stream", side |-> X, conn |-> conn]

\* the inflater after inflator.decompress raised zlib.error
FailedInflator == [st |-> "error", side |-> None, conn |-> 0]

\* reset_inflator left out: the inflater stays the object it was
reset_inflator_Skipped == inflator

\* reset_inflator, lines 38-42: the module's inflater is replaced
reset_inflator == NewInflator

\* zlib-stream: the server deflates all frames of a connection as one stream.
\* inflator.decompress (line 32) takes the next frame of socket w of gateway X
\* when the inflater stands where that stream stands: at its beginning for
\* the first frame, after the frames read before for a later one
Accepts(inf, X, w) ==
    IF w.read THEN inf = InStream(X, w.id) ELSE inf.st = "new"

\* the "s" of the dispatches a server sends, in order
SeqNo == <<"1", "2", "3", "4", "5", "6", "7", "8">>

\* the session id the server gives the session identified on connection n
SessionIds == <<"sid1", "sid2", "sid3", "sid4", "sid5", "sid6", "sid7", "sid8">>

\* Gateway.__init__: the fields of a new object (heartbeat_running does not
\* exist yet; it is written before it is first read)
NewGateway ==
    [run |-> TRUE, wait |-> FALSE, heartbeat_received |-> TRUE, sequence |-> None,
     resume_gateway_url |-> "", session_id |-> "", ready |-> FALSE, my_id |-> None,
     reconnect_requested |-> FALSE, error |-> None, resumable |-> FALSE,
     heartbeat_running |-> FALSE]

\* a text frame whose payload is the JSON object obj
JsonFrame(obj) == [kind |-> "text", body |-> "object", json |-> obj]

\* what recv can yield on the open socket of gateway X: a text frame (a JSON
\* object, JSON that is no object, text that is no JSON, or, on a compressed
\* session, data ending in 00 00 ff ff that the inflater rejects), a close frame
\* with its code, or an exception (the connection was reset, or was lost)
Frames(X) ==
    LET s == SeqNo[nInputs + 1]
    IN  {JsonFrame([op |-> o]) : o \in {7, 9, 11}}
        \cup {JsonFrame([op |-> 0, s |-> s, t |-> "READY",
                         d |-> [resume_gateway_url |-> "resume_url",
                                session_id |-> SessionIds[ws[X].id],
                                user |-> [id |-> MyId[X]]]]),
              JsonFrame([op |-> 0, s |-> s, t |-> "MESSAGE_CREATE",
                         d |-> [id |-> Snowflakes[X][nInputs + 1],
                                channel_id |-> SrcOf(X, Bridges[1]),
                                guild_id |-> GuildId[X],
                                user_id |-> Human]]),
              JsonFrame([op |-> 0, t |-> "MESSAGE_CREATE"])}
        \cup {[kind |-> "text", body |-> "array"], [kind |-> "text", body |-> "invalid"]}
        \cup (IF compressed[X] THEN {[kind |-> "text", body |-> "inflate_error"]} ELSE {})
        \cup {[kind |-> "close", code |-> c] : c \in {1000, 4000, 4004, 4009}}
        \cup {[kind |-> "reset"], [kind |-> "lost"]}

\* opcode 10, the first frame a server sends on a connection
Hello == JsonFrame([op |-> 10])

\* zlib_decompress: <<>> is None (zlib.error was caught), else the data
zlib_decompress(data) ==
    IF data.body = "inflate_error" THEN <<>> ELSE <<data>>

\* the frame `sent` on socket w as it is to the inflater inf: data that
\* inflator.decompress rejects when the inflater does not stand where the
\* connection's stream stands
Arriving(inf, X, w, sent) ==
    IF sent.kind = "text" /\ compressed[X] /\ ~Accepts(inf, X, w)
    THEN [kind |-> "text", body |-> "inflate_error"]
    ELSE sent

\* zlib_decompress, lines 31-35, called by gateway X on a frame read from
\* connection conn: the inflater inf afterwards
Inflated(inf, X, conn, frame) ==
    IF ~compressed[X] \/ frame.kind # "text" THEN inf
    ELSE IF zlib_decompress(frame) = <<>> THEN FailedInflator
    ELSE InStream(X, conn)

\* Gateway.receiver, decoding a frame that is no close frame: the response it
\* goes on with, "none" when response and opcode are None (no data, or
\* ValueError from json.loads), "except" when the outer except clause is taken
Decode(X, frame) ==
    LET data == IF compressed[X] THEN zlib_decompress(frame) ELSE <<frame>>
    IN  IF data = <<>> THEN [how |-> "none"]
        ELSE IF data[1].body = "invalid" THEN [how |-> "none"]
        ELSE IF data[1].body = "array" THEN [how |-> "except"]
        ELSE [how |-> "ok", response |-> data[1].json]

\* the buffer entry the receiver builds from a MESSAGE_CREATE dispatch, with its
\* place n in the order of the frames received
ReceiverEvent(response, n) ==
    [op |-> response.t,
     seq |-> n,
     d |-> [id |-> response.d.id,
            channel_id |-> response.d.channel_id,
            guild_id |-> response.d.guild_id,
            user_id |-> response.d.user_id,
            referenced_message |-> <<>>]]

\* threading.Thread.is_alive, by the thread's position
Alive(pc) == pc \notin {"none", "dead", "raised"}

\* self.send on socket w: "ok", "ws_exception" (WebSocketException, caught:
\* reconnect_requested is set) or "os_error" (BrokenPipeError and the like,
\* which self.send does not catch).  A socket the session closed always gives
\* ws_exception; one the peer dropped gives any of the three.
SendOutcomes(w) ==
    IF w.st = "open" THEN {"ok"}
    ELSE IF w.st = "closed" THEN {"ws_exception"}
    ELSE {"ok", "ws_exception", "os_error"}

\* Gateway.receiver, lines 182-346: what a frame does to the fields and the
\* buffer, and how the iteration ends: "continue", "break" or "raise"
OnFrame(X, g, buffer, frame) ==
    IF frame.kind \in {"reset", "lost"}
    THEN [g |-> [g EXCEPT !.resumable = TRUE], buffer |-> buffer,
          out |-> "break", why |-> "recv_error"]
    ELSE IF frame.kind = "close"
    THEN [g |-> [g EXCEPT !.resumable = frame.code \in {4000, 4009},
                          !.run = IF frame.code = 4004 THEN FALSE ELSE @],
          buffer |-> buffer, out |-> "break", why |-> "close"]
    ELSE LET dec == Decode(X, frame)
         IN  IF dec.how = "except"
             THEN [g |-> [g EXCEPT !.resumable = TRUE], buffer |-> buffer,
                   out |-> "break", why |-> "receiver_error"]
             ELSE IF dec.how = "none"
             THEN [g |-> g, buffer |-> buffer, out |-> "continue", why |-> ""]
             ELSE LET response == dec.response
                      opcode == response.op
                  IN  IF opcode = 11
                      THEN [g |-> [g EXCEPT !.heartbeat_received = TRUE],
                            buffer |-> buffer, out |-> "continue", why |-> ""]
                      ELSE IF opcode = 0
                      THEN IF "s" \notin DOMAIN response
                           THEN [g |-> g, buffer |-> buffer, out |-> "raise", why |-> ""]
                           ELSE IF response.t = "READY"
                           THEN [g |-> [g EXCEPT
                                        !.sequence = response.s,
                                        !.resume_gateway_url = response.d.resume_gateway_url,
                                        !.session_id = response.d.session_id,
                                        !.my_id = response.d.user.id,
                                        !.ready = TRUE],
                                 buffer |-> buffer, out |-> "continue", why |-> ""]
                           ELSE [g |-> [g EXCEPT !.sequence = response.s],
                                 buffer |-> Append(buffer, ReceiverEvent(response, nInputs + 1)),
                                 out |-> "continue", why |-> ""]
                      ELSE IF opcode = 7
                      THEN [g |-> [g EXCEPT !.resumable = TRUE], buffer |-> buffer,
                            out |-> "break", why |-> "op7"]
                      ELSE IF opcode = 9
                      THEN [g |-> g, buffer |-> buffer, out |-> "break", why |-> "op9"]
                      ELSE [g |-> g, buffer |-> buffer, out |-> "continue", why |-> ""]

\* the notes kept on gateway X, with `event` as the latest thing it did
Noted(X, event) == [hist[X] EXCEPT !.last = event]

\* the receiver reads frame number n on connection conn; `out` is how the
\* iteration ends and `why` names the cause when it ends the loop
Read(n, conn, frame, out, why) ==
    [ev |-> "recv", n |-> n, conn |-> conn, frame |-> frame, out |-> out, why |-> why]

\* the receiver stopped for a cause that asks for a resume: opcode 7, a close
\* frame with code 4000 or 4009, or recv_data raising
ResumableStop(event) ==
    \/ event.why \in {"op7", "recv_error"}
    \/ event.why = "close" /\ event.frame.code \in {4000, 4009}

\* the receiver stopped for a cause that asks for a fresh identify: opcode 9,
\* or a close frame with a code other than 4000, 4009 and 4004
FreshStop(event) ==
    \/ event.why = "op9"
    \/ event.why = "close" /\ event.frame.code \notin {4000, 4009, 4004}

\* the notes after the receiver left its loop: owes_resume says that a stop
\* asking for a resume, on the socket the session still has, has not been
\* followed by op 6 or op 2 yet,
\* owes_identify is the number of the frame of the first stop asking for a
\* fresh identify that op 2 has not followed yet (0 when there is none), gone
\* says that close code 4004 was read
AfterStop(X, event) ==
    [hist[X] EXCEPT !.last = event,
                    !.owes_resume = IF ResumableStop(event) /\ event.conn = ws[X].id THEN TRUE ELSE @,
                    !.owes_identify = IF FreshStop(event) /\ @ = 0 THEN event.n ELSE @,
                    !.gone = IF event.why = "close" /\ event.frame.code = 4004
                             THEN TRUE ELSE @]

\* the receiver's while loop testing wait alone
ReceiverNext_IgnoresRun(X, g) ==
    IF ~g.wait
    THEN [thr[X] EXCEPT !.receiver = "recv", !.rconn = ws[X].id]
    ELSE [thr[X] EXCEPT !.receiver = "exit"]

\* the test of the receiver's while loop and, when it passes, the call of
\* recv_data on the socket self.ws stands for at that moment
ReceiverNext(X, g) ==
    IF g.run /\ ~g.wait
    THEN [thr[X] EXCEPT !.receiver = "recv", !.rconn = ws[X].id]
    ELSE [thr[X] EXCEPT !.receiver = "exit"]

\* Gateway.receiver, lines 170-174: a receiver starts
ReceiverStart(X) ==
    /\ thr[X].receiver = "start"
    /\ gw' = [gw EXCEPT ![X].resumable = FALSE]
    /\ thr' = [thr EXCEPT ![X] = ReceiverNext(X, gw[X])]
    /\ UNCHANGED <<buf, relayVars, ws, hist, poll, nInputs, main, inflator, fmt>>

\* Gateway.receiver, lines 174-181: recv_data raises because the socket it was
\* called on is closed or gone
ReceiverRecvClosed(X) ==
    /\ thr[X].receiver = "recv"
    /\ thr[X].rconn # ws[X].id \/ ws[X].st # "open"
    /\ LET g == [gw[X] EXCEPT !.resumable = TRUE]
       IN  /\ gw' = [gw EXCEPT ![X] = g]
           /\ hist' = [hist EXCEPT ![X] =
                AfterStop(X, Read(0, thr[X].rconn, [kind |-> "lost"], "break", "recv_error"))]
    /\ thr' = [thr EXCEPT ![X].receiver = "exit"]
    /\ UNCHANGED <<buf, relayVars, ws, poll, nInputs, main, inflator, fmt>>

\* safe_function_wrapper: the exception of the wrapped function, kept in error
Captured(X, g) == [g EXCEPT !.error = "traceback"]

\* Gateway.receiver, lines 172-346: recv_data returns a frame, or raises; the
\* frame is handled, and the loop goes round or ends
ReceiverRecv(X) ==
    /\ thr[X].receiver = "recv"
    /\ thr[X].rconn = ws[X].id
    /\ ws[X].st = "open"
    /\ nInputs < MaxInputs
    /\ \E sent \in Frames(X) :
        LET frame == Arriving(inflator, X, ws[X], sent)
            r == OnFrame(X, gw[X], buf[X], frame)
            read == Read(nInputs + 1, ws[X].id, frame, r.out, r.why)
        IN  /\ gw' = [gw EXCEPT ![X] = IF r.out = "raise" THEN Captured(X, r.g) ELSE r.g]
            /\ buf' = [buf EXCEPT ![X] = r.buffer]
            /\ poll' = [poll EXCEPT ![X].put = @ \o SubSeq(r.buffer, Len(buf[X]) + 1, Len(r.buffer))]
            /\ inflator' = Inflated(inflator, X, ws[X].id, frame)
            /\ ws' = [ws EXCEPT ![X].st =
                        IF frame.kind \in {"close", "reset", "lost"} THEN "lost" ELSE @,
                                ![X].read = frame.kind = "text" \/ @]
            /\ thr' = [thr EXCEPT ![X] =
                        IF r.out = "continue" THEN ReceiverNext(X, r.g)
                        ELSE IF r.out = "break" THEN [@ EXCEPT !.receiver = "exit"]
                        ELSE [@ EXCEPT !.receiver = "raised"]]
            /\ hist' = [hist EXCEPT ![X] =
                        IF r.out = "break" THEN AfterStop(X, read) ELSE Noted(X, read)]
    /\ nInputs' = nInputs + 1
    /\ UNCHANGED <<relayVars, main, fmt>>

\* Gateway.receiver, lines 348-350: after the loop
ReceiverExit(X) ==
    /\ thr[X].receiver = "exit"
    /\ gw' = [gw EXCEPT ![X].reconnect_requested = TRUE, ![X].heartbeat_running = FALSE]
    /\ thr' = [thr EXCEPT ![X].receiver = "dead"]
    /\ UNCHANGED <<buf, relayVars, ws, hist, poll, nInputs, main, inflator, fmt>>

\* Gateway.send_heartbeat, lines 356-357: a heartbeater starts
HeartbeatStart(X) ==
    /\ thr[X].heartbeat = "start"
    /\ gw' = [gw EXCEPT ![X].heartbeat_running = TRUE, ![X].heartbeat_received = TRUE]
    /\ thr' = [thr EXCEPT ![X].heartbeat = "loop"]
    /\ UNCHANGED <<buf, relayVars, ws, hist, poll, nInputs, main, inflator, fmt>>

\* the test of the heartbeater's while loop
HeartbeatTest(g) == g.run /\ ~g.wait /\ g.heartbeat_running

\* the heartbeater that forgets to look at heartbeat_received
AfterHeartbeat_NoCheck(g, outcome) ==
    [g |-> [g EXCEPT !.reconnect_requested = IF outcome = "ws_exception" THEN TRUE ELSE @,
                     !.heartbeat_received = FALSE],
     pc |-> "loop"]

\* Gateway.send_heartbeat, lines 362-370: the fields and the heartbeater's
\* position after self.send returned with `outcome` ("ok" or "ws_exception")
AfterHeartbeat(g, outcome) ==
    LET sent == [g EXCEPT !.reconnect_requested = IF outcome = "ws_exception" THEN TRUE ELSE @]
    IN  IF ~sent.heartbeat_received
        THEN [g |-> [sent EXCEPT !.resumable = TRUE], pc |-> "exit"]
        ELSE [g |-> [sent EXCEPT !.heartbeat_received = FALSE], pc |-> "loop"]

\* Gateway.send_heartbeat, lines 360-370: an iteration in which the interval has
\* elapsed; an exception that self.send does not catch ends the thread
HeartbeatBeat(X) ==
    /\ thr[X].heartbeat = "loop"
    /\ HeartbeatTest(gw[X])
    /\ \E outcome \in SendOutcomes(ws[X]) :
        IF outcome = "os_error"
        THEN /\ thr' = [thr EXCEPT ![X].heartbeat = "raised"]
             /\ gw' = gw
        ELSE LET r == AfterHeartbeat(gw[X], outcome)
             IN  /\ thr' = [thr EXCEPT ![X].heartbeat = r.pc]
                 /\ gw' = [gw EXCEPT ![X] = r.g]
    /\ UNCHANGED <<buf, relayVars, ws, hist, poll, nInputs, main, inflator, fmt>>

\* Gateway.send_heartbeat: the while test fails
HeartbeatStop(X) ==
    /\ thr[X].heartbeat = "loop"
    /\ ~HeartbeatTest(gw[X])
    /\ thr' = [thr EXCEPT ![X].heartbeat = "exit"]
    /\ UNCHANGED <<buf, relayVars, gw, ws, hist, poll, nInputs, main, inflator, fmt>>

\* Gateway.send_heartbeat, lines 374-375: after the loop
HeartbeatExit(X) ==
    /\ thr[X].heartbeat = "exit"
    /\ gw' = [gw EXCEPT ![X].reconnect_requested = TRUE]
    /\ thr' = [thr EXCEPT ![X].heartbeat = "dead"]
    /\ UNCHANGED <<buf, relayVars, ws, hist, poll, nInputs, main, inflator, fmt>>

\* Gateway.thread_guard: one turn of its loop that finds something to do (a
\* request to clear, or run false); a turn that finds nothing changes nothing
ThreadGuard(X) ==
    /\ thr[X].guard = "loop"
    /\ IF ~gw[X].run
       THEN /\ thr' = [thr EXCEPT ![X].guard = "dead"]
            /\ gw' = gw
       ELSE /\ gw[X].reconnect_requested
            /\ gw' = [gw EXCEPT ![X].reconnect_requested = FALSE]
            /\ thr' = [thr EXCEPT ![X].reconnect =
                            IF Alive(thr[X].reconnect) THEN @ ELSE "begin"]
    /\ UNCHANGED <<buf, relayVars, ws, hist, poll, nInputs, main, inflator, fmt>>

\* connect_ws: the URL, by the resume argument
ConnectUrl(g, resume) ==
    IF resume /\ g.resume_gateway_url # ""
    THEN g.resume_gateway_url
    ELSE "gateway_url"

\* self.ws = websocket.WebSocket() and a connect that succeeds: connection n + 1
Opened(w, url) == [id |-> w.id + 1, st |-> "open", url |-> url, read |-> FALSE]

\* how connect_ws can end: connected, WebSocketBadStatusException, or
\* WebSocketAddressException (the network is down)
ConnectOutcomes == {"ok", "bad_status", "address"}

\* Gateway.reconnect, lines 461-465: the handler of WebSocketAddressException.
\* A wait_online started while another still sleeps is shown as the one
\* thread, back at its start.
AddressHandler(X, t) ==
    IF ~gw[X].wait
    THEN [t EXCEPT !.reconnect = "dead", !.waiter = "start"]
    ELSE [t EXCEPT !.reconnect = "dead"]

\* Gateway.reconnect, lines 439-441: resumable is tested and cleared
ReconnectBegin(X) ==
    /\ thr[X].reconnect = "begin"
    /\ IF gw[X].resumable
       THEN /\ gw' = [gw EXCEPT ![X].resumable = FALSE]
            /\ thr' = [thr EXCEPT ![X].reconnect = "resume_close"]
            /\ hist' = hist
       ELSE /\ thr' = [thr EXCEPT ![X].reconnect = "finish"]
            /\ hist' = [hist EXCEPT ![X] = Noted(X, [ev |-> "no_resume", conn |-> ws[X].id])]
            /\ gw' = gw
    /\ UNCHANGED <<buf, relayVars, ws, poll, nInputs, main, inflator, fmt>>

\* Gateway.resume, lines 407-408: the socket is closed, and resume sleeps
ResumeClose(X) ==
    /\ thr[X].reconnect = "resume_close"
    /\ ws' = [ws EXCEPT ![X].st = "closed"]
    /\ thr' = [thr EXCEPT ![X].reconnect = "resume_open"]
    /\ UNCHANGED <<buf, relayVars, gw, hist, poll, nInputs, main, inflator, fmt>>

\* Gateway.resume, lines 409-421: the new socket, the HELLO read and dropped, op 6
ResumeOpen(X) ==
    /\ thr[X].reconnect = "resume_open"
    /\ \E outcome \in ConnectOutcomes :
        LET url == ConnectUrl(gw[X], TRUE)
            new == Opened(ws[X], url)
        IN  IF outcome = "ok"
            THEN /\ ws' = [ws EXCEPT ![X] = [new EXCEPT !.read = TRUE]]
                 /\ inflator' = Inflated(reset_inflator, X, new.id,
                                         Arriving(reset_inflator, X, new, Hello))
                 /\ hist' = [hist EXCEPT ![X] =
                        [@ EXCEPT !.last = [ev |-> "send", op |-> 6, conn |-> new.id, url |-> url,
                                            session_id |-> gw[X].session_id,
                                            seq |-> gw[X].sequence],
                                  !.owes_resume = FALSE]]
                 /\ thr' = [thr EXCEPT ![X].reconnect = "resume_read"]
                 /\ nInputs' = nInputs
            ELSE /\ nInputs < MaxInputs
                 /\ nInputs' = nInputs + 1
                 /\ ws' = [ws EXCEPT ![X].st = "closed"]
                 /\ inflator' = reset_inflator
                 /\ hist' = [hist EXCEPT ![X] =
                        Noted(X, [ev |-> "open_failed", n |-> nInputs + 1,
                                  url |-> url, how |-> outcome])]
                 /\ thr' = [thr EXCEPT ![X] =
                                IF outcome = "bad_status"
                                THEN [@ EXCEPT !.reconnect = "identify"]
                                ELSE AddressHandler(X, @)]
    /\ UNCHANGED <<buf, relayVars, gw, poll, main, fmt>>

\* Gateway.resume, lines 422-431: the value returned for the frame read after
\* op 6; <<>> when an exception leaves resume that it does not catch (recv
\* raising anything but WebSocketConnectionClosedException, TypeError for
\* json.loads(None) or for indexing JSON that is no object, KeyError for "op")
ResumeCode(X, frame) ==
    IF frame.kind \in {"close", "lost"} THEN <<9>>
    ELSE IF frame.kind = "reset" THEN <<>>
    ELSE LET data == IF compressed[X] THEN zlib_decompress(frame) ELSE <<frame>>
         IN  IF data = <<>> THEN <<>>
             ELSE IF data[1].body = "invalid" THEN <<9>>
             ELSE IF data[1].body = "object" /\ "op" \in DOMAIN data[1].json
                  THEN <<data[1].json.op>>
             ELSE <<>>

\* Gateway.resume, lines 422-431: the frame after op 6 is read
ResumeRead(X) ==
    /\ thr[X].reconnect = "resume_read"
    /\ ws[X].st = "open"
    /\ nInputs < MaxInputs
    /\ nInputs' = nInputs + 1
    /\ \E sent \in Frames(X) :
        LET frame == Arriving(inflator, X, ws[X], sent)
            code == ResumeCode(X, frame)
        IN  /\ hist' = [hist EXCEPT ![X] =
                    Noted(X, [ev |-> "resumed", n |-> nInputs + 1, conn |-> ws[X].id,
                              code |-> code, frame |-> frame])]
            /\ inflator' = Inflated(inflator, X, ws[X].id, frame)
            /\ ws' = [ws EXCEPT ![X].st =
                        IF frame.kind \in {"close", "reset", "lost"} THEN "lost" ELSE @]
            /\ thr' = [thr EXCEPT ![X].reconnect =
                        IF code = <<>> THEN "raised"
                        ELSE IF code = <<9>> THEN "identify"
                        ELSE "finish"]
    /\ UNCHANGED <<buf, relayVars, gw, poll, main, fmt>>

\* Gateway.reconnect, lines 443-451: resume returned 9.  The old socket is
\* closed and a new one opened; WebSocketBadStatusException leaves reconnect
\* uncaught and ends the thread.
ReconnectIdentify(X) ==
    /\ thr[X].reconnect = "identify"
    /\ \E outcome \in ConnectOutcomes :
        LET url == ConnectUrl(gw[X], FALSE)
            new == Opened(ws[X], url)
        IN  IF outcome = "ok"
            THEN /\ ws' = [ws EXCEPT ![X] = new]
                 /\ hist' = [hist EXCEPT ![X] =
                        [@ EXCEPT !.last = [ev |-> "send", op |-> 2, conn |-> new.id, url |-> url],
                                  !.owes_resume = FALSE,
                                  !.owes_identify = 0]]
                 /\ thr' = [thr EXCEPT ![X].reconnect = "finish"]
                 /\ nInputs' = nInputs
            ELSE /\ nInputs < MaxInputs
                 /\ nInputs' = nInputs + 1
                 /\ ws' = [ws EXCEPT ![X].st = "closed"]
                 /\ hist' = [hist EXCEPT ![X] =
                        Noted(X, [ev |-> "open_failed", n |-> nInputs + 1,
                                  url |-> url, how |-> outcome])]
                 /\ thr' = [thr EXCEPT ![X] =
                                IF outcome = "bad_status"
                                THEN [@ EXCEPT !.reconnect = "raised"]
                                ELSE AddressHandler(X, @)]
    /\ gw' = [gw EXCEPT ![X].ready = FALSE]
    /\ inflator' = reset_inflator
    /\ UNCHANGED <<buf, relayVars, poll, main, fmt>>

\* Gateway.reconnect, lines 452-460: wait is cleared, dead workers are started
ReconnectFinish(X) ==
    /\ thr[X].reconnect = "finish"
    /\ gw' = [gw EXCEPT ![X].wait = FALSE]
    /\ thr' = [thr EXCEPT ![X].reconnect = "dead",
                          ![X].receiver = IF Alive(@) THEN @ ELSE "start",
                          ![X].heartbeat = IF Alive(@) THEN @ ELSE "start"]
    /\ UNCHANGED <<buf, relayVars, ws, hist, poll, nInputs, main, inflator, fmt>>

\* Gateway.wait_online, line 470
WaitOnlineStart(X) ==
    /\ thr[X].waiter = "start"
    /\ gw' = [gw EXCEPT ![X].wait = TRUE]
    /\ thr' = [thr EXCEPT ![X].waiter = "loop"]
    /\ UNCHANGED <<buf, relayVars, ws, hist, poll, nInputs, main, inflator, fmt>>

\* Gateway.wait_online, lines 471-473: a turn of the loop that changes
\* something, or the loop's end
WaitOnlineLoop(X) ==
    /\ thr[X].waiter = "loop"
    /\ IF gw[X].run /\ gw[X].wait
       THEN /\ ~gw[X].reconnect_requested
            /\ gw' = [gw EXCEPT ![X].reconnect_requested = TRUE]
            /\ thr' = thr
       ELSE /\ gw' = gw
            /\ thr' = [thr EXCEPT ![X].waiter = "dead"]
    /\ UNCHANGED <<buf, relayVars, ws, hist, poll, nInputs, main, inflator, fmt>>

\* Gateway.get_messages, lines 515-516, called by relay loop X: the length test
PollLen(X) ==
    /\ poll[X].pc = "idle"
    /\ IF Len(buf[X]) = 0
       THEN poll' = [poll EXCEPT ![X].ret = <<>>, ![X].calls = 1]
       ELSE poll' = [poll EXCEPT ![X].pc = "pop"]
    /\ UNCHANGED <<buf, relayVars, gw, thr, ws, hist, nInputs, main, inflator, fmt>>

\* Gateway.get_messages, line 517, called by relay loop X: the pop
PollPop(X) ==
    /\ poll[X].pc = "pop"
    /\ LET got == get_messages(buf[X])
       IN  /\ buf' = [buf EXCEPT ![X] = got.buffer]
           /\ poll' = [poll EXCEPT ![X].pc = "idle",
                                   ![X].ret = <<got.msg>>,
                                   ![X].calls = 1,
                                   ![X].taken = Append(@, got.msg)]
    /\ UNCHANGED <<relayVars, gw, thr, ws, hist, nInputs, main, inflator, fmt>>

\* no thread of gateway X runs
NoThreads ==
    [receiver |-> "none", rconn |-> 0, heartbeat |-> "none", guard |-> "none",
     reconnect |-> "none", waiter |-> "none"]

\* Gateway.connect has returned: the socket is open, identify is sent, receiver
\* and heartbeater are started; thread_guard runs since __init__
Connected ==
    [receiver |-> "start", rconn |-> 0, heartbeat |-> "start", guard |-> "loop",
     reconnect |-> "none", waiter |-> "none"]

\* self.ws before connect
NoSocket == [id |-> 0, st |-> "closed", url |-> "", read |-> FALSE]

\* the notes of a gateway that has done nothing yet
NoNotes ==
    [last |-> [ev |-> "none"], owes_resume |-> FALSE, owes_identify |-> 0,
     gone |-> FALSE]

\* a relay loop that has not polled yet
NoPolls == [pc |-> "idle", ret |-> <<>>, calls |-> 0, taken |-> <<>>, put |-> <<>>]

\* the relay loops' world, empty and at rest
RelayIdle ==
    /\ buf = [X \in Sides |-> <<>>]
    /\ db = [X \in Sides |-> {}]
    /\ msgs = [X \in Sides |-> {}]
    /\ nextId = [X \in Sides |-> 1]
    /\ log = [X \in Sides |-> <<>>]
    /\ nEvents = 0

\* the process before Bridge.__init__ reaches its wait for READY
MainIdle == [pc |-> "init", loop_b |-> "none", pass_a |-> 0, pass_b |-> 0]

\* the gateways' world with no session connected
GatewaysIdle ==
    /\ gw = [X \in Sides |-> NewGateway]
    /\ thr = [X \in Sides |-> NoThreads]
    /\ ws = [X \in Sides |-> NoSocket]
    /\ hist = [X \in Sides |-> NoNotes]
    /\ poll = [X \in Sides |-> NoPolls]
    /\ nInputs = 0
    /\ main = MainIdle
    /\ inflator = NewInflator
    /\ fmt = NoCall

\* gateway S on its own, just connected by Gateway.connect: the socket is open,
\* HELLO is read (through the inflater when the session is compressed)
\* and op 2 is sent
Session(S) ==
    /\ RelayIdle
    /\ gw = [X \in Sides |-> NewGateway]
    /\ thr = [X \in Sides |-> IF X = S THEN Connected ELSE NoThreads]
    /\ ws = [X \in Sides |->
                IF X = S THEN [id |-> 1, st |-> "open", url |-> "gateway_url", read |-> TRUE] ELSE NoSocket]
    /\ hist = [X \in Sides |->
                IF X = S
                THEN [NoNotes EXCEPT !.last =
                        [ev |-> "send", op |-> 2, conn |-> 1, url |-> "gateway_url"]]
                ELSE NoNotes]
    /\ poll = [X \in Sides |-> NoPolls]
    /\ nInputs = 0
    /\ main = MainIdle
    /\ inflator = IF compressed[S] THEN InStream(S, 1) ELSE NewInflator
    /\ fmt = NoCall

\* the compressed session, whose frames are those of the other one and the
\* frame the inflater rejects
GwInit == Session("A")

GwNext ==
    \E X \in Sides :
        \/ ReceiverStart(X)
        \/ ReceiverRecvClosed(X)
        \/ ReceiverRecv(X)
        \/ ReceiverExit(X)
        \/ HeartbeatStart(X)
        \/ HeartbeatBeat(X)
        \/ HeartbeatStop(X)
        \/ HeartbeatExit(X)
        \/ ThreadGuard(X)
        \/ ReconnectBegin(X)
        \/ ResumeClose(X)
        \/ ResumeOpen(X)
        \/ ResumeRead(X)
        \/ ReconnectIdentify(X)
        \/ ReconnectFinish(X)
        \/ WaitOnlineStart(X)
        \/ WaitOnlineLoop(X)

GwSpec == GwInit /\ [][GwNext]_vars

\* the receiver of one session and the relay loop that polls its buffer
BufNext ==
    \E X \in Sides :
        \/ ReceiverStart(X)
        \/ ReceiverRecv(X)
        \/ ReceiverExit(X)
        \/ PollLen(X)
        \/ PollPop(X)

\* either session, connected
BufInit == \E S \in Sides : Session(S)

BufSpec == BufInit /\ [][BufNext]_vars

\* ---------------------------------------------------------- specification

Init ==
    /\ buf = [X \in Sides |-> <<>>]
    /\ db = [X \in Sides |-> {}]
    /\ msgs = [X \in Sides |-> {}]
    /\ nextId = [X \in Sides |-> 1]
    /\ log = [X \in Sides |-> <<>>]
    /\ nEvents = 0
    /\ GatewaysIdle

Next ==
    \/ loop_a
    \/ loop_b
    \/ \E X \in Sides : UserCreate(X)
    \/ \E X \in Sides : UserUpdate(X)
    \/ \E X \in Sides : UserDelete(X)
    \/ \E X \in Sides : UserReact(X)
    \/ \E X \in Sides : Replay(X)

Spec == Init /\ [][Next]_vars

\* ------------------------------------------------------------- properties

\* relay loop X took an event from its buffer in this step
Took(X) == Len(log'[X]) = Len(log[X]) + 1

\* the newest entry of a history
Last(h) == h[Len(h)]

\* entry of a relay loop's history: it called send_message
IsSend(ent) == ent.call # <<>> /\ ent.call[1].fn = "send_message"

\* the ids of the messages the bridge created on backend Y
Mirrors(Y) ==
    {log[Other(Y)][i].call[1].ret :
        i \in {j \in DOMAIN log[Other(Y)] :
                IsSend(log[Other(Y)][j]) /\ log[Other(Y)][j].call[1].ret # None}}

\* the rows pair store X holds for source id s of channel ch
RowsOf(rows, X, ch, s) ==
    {r \in rows : r.pair = PairName(ch, bridges(X)[ch]) /\ r.source_id = s}

\* C1: no self-echo.  Whenever relay loop X takes an event whose user_id is
\* gateway X's my_id, whatever its op and channel, it makes no REST call (the
\* other backend's messages, id counter and gateway buffer stay as they are) and
\* no pair store changes.
C1_NoSelfEcho ==
    [][\A X \in Sides :
        (Took(X) /\ Get(Last(log'[X]).evt.d, "user_id") = MyId[X]) =>
            /\ Last(log'[X]).call = <<>>
            /\ db' = db
            /\ msgs' = msgs
            /\ nextId' = nextId
            /\ buf'[Other(X)] = buf[Other(X)]]_vars

\* C1 witness: a relay loop has taken an event authored by its own bot
C1_Witness ==
    \E X \in Sides : \E i \in DOMAIN log[X] :
        Get(log[X][i].evt.d, "user_id") = MyId[X]

\* C2: loop suppression end to end.  A message the bridge created on backend Y,
\* delivered back by gateway Y as MESSAGE_CREATE or MESSAGE_UPDATE, never causes
\* a REST call of relay loop Y; and in each direction the number of send_message
\* calls never exceeds the number of MESSAGE_CREATE events gateway X received
\* whose author is not the bot.
C2_LoopSuppression ==
    \A Y \in Sides :
        /\ \A i \in DOMAIN log[Y] :
            (/\ log[Y][i].evt.op \in {"MESSAGE_CREATE", "MESSAGE_UPDATE"}
             /\ log[Y][i].evt.d.id \in Mirrors(Y)) => log[Y][i].call = <<>>
        /\ Cardinality({i \in DOMAIN log[Y] : IsSend(log[Y][i])})
            <= Cardinality({e \in Delivered(Y) :
                    e.op = "MESSAGE_CREATE" /\ e.d.user_id # MyId[Y]})

\* C2 witness: a relay loop has taken both the MESSAGE_CREATE and the
\* MESSAGE_UPDATE that the bridge's own send and edit caused
C2_Witness ==
    \E Y \in Sides : \E i, j \in DOMAIN log[Y] :
        /\ log[Y][i].evt.op = "MESSAGE_CREATE"
        /\ log[Y][j].evt.op = "MESSAGE_UPDATE"
        /\ log[Y][i].evt.d.id \in Mirrors(Y)
        /\ log[Y][j].evt.d.id = log[Y][i].evt.d.id

C4_IdempotentMirror ==
    \A X \in Sides : \A i, j \in DOMAIN log[X] :
        (/\ IsSend(log[X][i])
         /\ IsSend(log[X][j])
         /\ log[X][i].evt.d.id = log[X][j].evt.d.id
         /\ log[X][i].evt.d.channel_id = log[X][j].evt.d.channel_id) => i = j

\* the ids the two pair stores map the referenced message of `d` to, seen from
\* relay loop X: as a source of store X, or as a mirror recorded in store Y
KnownMappings(X, d, dbs) ==
    IF d.referenced_message = <<>> THEN {}
    ELSE LET ref == d.referenced_message[1]
             src == d.channel_id
             tgt == bridges(X)[src]
         IN  {r.target_id : r \in {q \in dbs[X] :
                    q.pair = PairName(src, tgt) /\ q.source_id = ref.id}}
             \cup {r.source_id : r \in {q \in dbs[Other(X)] :
                    q.pair = PairName(tgt, src) /\ q.target_id = ref.id}}

\* C5: reply resolution.  The body of every send_message a relay loop issues
\* carries message_reference, with message_id the mapped id and channel_id the
\* target channel, exactly when the referenced message has a mapping in the
\* stores at that moment; a message that is no reply, or whose referenced
\* message has no mapping, goes out without message_reference.
C5_ReplyResolution ==
    [][\A X \in Sides : (Took(X) /\ IsSend(Last(log'[X]))) =>
        LET ent == Last(log'[X])
            body == ent.call[1].body
            known == KnownMappings(X, ent.evt.d, db)
        IN  IF known = {}
            THEN "message_reference" \notin DOMAIN body
            ELSE /\ "message_reference" \in DOMAIN body
                 /\ known = {body.message_reference.message_id}
                 /\ body.message_reference.channel_id = bridges(X)[ent.evt.d.channel_id]]_vars

\* C5 witness: a relayed reply went out with a message_reference
C5_Witness ==
    \E X \in Sides : \E i \in DOMAIN log[X] :
        /\ IsSend(log[X][i])
        /\ log[X][i].evt.d.referenced_message # <<>>
        /\ "message_reference" \in DOMAIN log[X][i].call[1].body

ReferencedMentions(d) ==
    IF d.referenced_message = <<>> THEN {} ELSE d.referenced_message[1].mentions

\* C7 (as claimed): for every relayed MESSAGE_CREATE, reply_ping is false if and
\* only if the bot's id is not among referenced_message.mentions.
C7_PingSuppressionEveryCreate ==
    \A X \in Sides : \A i \in DOMAIN log[X] :
        IsSend(log[X][i]) =>
            (log[X][i].call[1].reply_ping = FALSE
                <=> MyId[X] \notin ReferencedMentions(log[X][i].evt.d))

\* C7 (amended): for every relayed MESSAGE_CREATE that has a referenced_message,
\* reply_ping is false if and only if the bot's id is not among
\* referenced_message.mentions; for one without referenced_message reply_ping
\* is true.
C7_PingSuppressionOnReplies ==
    \A X \in Sides : \A i \in DOMAIN log[X] :
        IsSend(log[X][i]) =>
            IF log[X][i].evt.d.referenced_message # <<>>
            THEN log[X][i].call[1].reply_ping = FALSE
                    <=> MyId[X] \notin ReferencedMentions(log[X][i].evt.d)
            ELSE log[X][i].call[1].reply_ping = TRUE

\* C7 witness: a reply to a message that mentions the bot was relayed
C7_Witness ==
    \E X \in Sides : \E i \in DOMAIN log[X] :
        /\ IsSend(log[X][i])
        /\ log[X][i].evt.d.referenced_message # <<>>
        /\ MyId[X] \in ReferencedMentions(log[X][i].evt.d)

\* C8 (as claimed): whenever send_message is called with reply_id set and
\* reply_ping false, the body carries allowed_mentions with replied_user = false
\* and parse = [users, roles, everyone], whether reply_guild_id is set or not.
C8_NonPingingReplyBody ==
    \A X \in Sides : \A i \in DOMAIN log[X] :
        (/\ IsSend(log[X][i])
         /\ log[X][i].call[1].reply_id # None
         /\ ~log[X][i].call[1].reply_ping) =>
            LET body == log[X][i].call[1].body
            IN  /\ "allowed_mentions" \in DOMAIN body
                /\ body.allowed_mentions.parse = <<"users", "roles", "everyone">>
                /\ "replied_user" \in DOMAIN body.allowed_mentions
                /\ body.allowed_mentions.replied_user = FALSE

\* C9: ordering.  The REST calls of relay loop X are issued in the order in
\* which gateway X received the events that cause them: of two calls, the
\* earlier one is for the event received earlier.
C9_Ordering ==
    \A X \in Sides : \A i, j \in DOMAIN log[X] :
        (i < j /\ log[X][i].call # <<>> /\ log[X][j].call # <<>>) =>
            log[X][i].evt.seq < log[X][j].evt.seq

\* C9 witness: a relay loop has issued two REST calls while a further event
\* waits in its buffer
C9_Witness ==
    \E X \in Sides : \E i, j \in DOMAIN log[X] :
        /\ i < j
        /\ log[X][i].call # <<>>
        /\ log[X][j].call # <<>>
        /\ Len(buf[X]) >= 1

\* the entries of relay loop X's history for message events about source id s
History(X, s) ==
    SelectSeq(log[X], LAMBDA ent :
        /\ ent.evt.op \in {"MESSAGE_CREATE", "MESSAGE_UPDATE", "MESSAGE_DELETE"}
        /\ ent.evt.d.id = s)

\* the call is fn on message t of channel ch
IsCallOn(call, fn, ch, t) ==
    /\ call # <<>>
    /\ call[1].fn = fn
    /\ call[1].channel_id = ch
    /\ call[1].message_id = t

Receiving(X) == main.pc # "exited" /\ gw[X].run /\ gw[X].error = None

\* what the process sees of gateway X while it runs: the receiver handles READY
\* (gateway.py, line 234)
GwReady(X) ==
    /\ Receiving(X)
    /\ ~gw[X].ready
    /\ gw' = [gw EXCEPT ![X].ready = TRUE]
    /\ UNCHANGED <<buf, relayVars, thr, ws, hist, poll, nInputs, main, inflator, fmt>>

\* the receiver reads close code 4004 (lines 190-191)
GwInvalidToken(X) ==
    /\ Receiving(X)
    /\ gw' = [gw EXCEPT ![X].run = FALSE]
    /\ UNCHANGED <<buf, relayVars, thr, ws, hist, poll, nInputs, main, inflator, fmt>>

\* safe_function_wrapper catches what the receiver raised (line 156)
GwWorkerError(X) ==
    /\ Receiving(X)
    /\ gw' = [gw EXCEPT ![X] = Captured(X, @)]
    /\ UNCHANGED <<buf, relayVars, thr, ws, hist, poll, nInputs, main, inflator, fmt>>

\* a reconnect that identifies afresh (line 447)
GwReidentify(X) ==
    /\ Receiving(X)
    /\ gw[X].ready
    /\ gw' = [gw EXCEPT ![X].ready = FALSE]
    /\ UNCHANGED <<buf, relayVars, thr, ws, hist, poll, nInputs, main, inflator, fmt>>

\* Bridge.__init__, lines 98-127: one turn of the wait for both READY events;
\* once both are there loop_b is started as a thread and loop_a is entered
StartupWait ==
    /\ main.pc = "wait_ready"
    /\ IF gw["A"].ready /\ gw["B"].ready
       THEN main' = [main EXCEPT !.pc = "loop_a", !.loop_b = "loop"]
       ELSE IF gw["A"].error # None \/ gw["B"].error # None
       THEN main' = [main EXCEPT !.pc = "exited"]
       ELSE /\ ~gw["A"].run \/ ~gw["B"].run
            /\ main' = [main EXCEPT !.pc = "exited"]
    /\ UNCHANGED <<buf, relayVars, gw, thr, ws, hist, poll, nInputs, inflator, fmt>>

\* Bridge.loop_a, run by the main thread: one pass, with its check of the
\* gateway's error at the end (lines 293-298); sys.exit ends the process, the
\* other threads being daemons
LoopAPass ==
    /\ main.pc = "loop_a"
    /\ IF gw["A"].error # None
       THEN main' = [main EXCEPT !.pc = "exited", !.loop_b = "dead"]
       ELSE main' = [main EXCEPT !.pass_a = 1 - @]
    /\ UNCHANGED <<buf, relayVars, gw, thr, ws, hist, poll, nInputs, inflator, fmt>>

\* Bridge.loop_b, run by a thread of its own: one pass, with its check at the
\* end (lines 433-438); sys.exit in a thread other than the main one raises
\* SystemExit there and ends that thread alone
LoopBPass ==
    /\ main.pc = "loop_a"
    /\ main.loop_b = "loop"
    /\ IF gw["A"].error # None
       THEN main' = [main EXCEPT !.loop_b = "dead"]
       ELSE main' = [main EXCEPT !.pass_b = 1 - @]
    /\ UNCHANGED <<buf, relayVars, gw, thr, ws, hist, poll, nInputs, inflator, fmt>>

\* Bridge.__init__ has connected both gateways and waits for READY
MainInit ==
    /\ RelayIdle
    /\ gw = [X \in Sides |-> NewGateway]
    /\ thr = [X \in Sides |-> Connected]
    /\ ws = [X \in Sides |-> [id |-> 1, st |-> "open", url |-> "gateway_url", read |-> TRUE]]
    /\ hist = [X \in Sides |-> NoNotes]
    /\ poll = [X \in Sides |-> NoPolls]
    /\ nInputs = 0
    /\ main = [MainIdle EXCEPT !.pc = "wait_ready"]
    /\ inflator = InStream("A", 1)
    /\ fmt = NoCall

MainNext ==
    \/ StartupWait
    \/ LoopAPass
    \/ LoopBPass
    \/ \E X \in Sides :
        \/ GwReady(X)
        \/ GwInvalidToken(X)
        \/ GwWorkerError(X)
        \/ GwReidentify(X)

\* the main thread and loop_b's thread keep being scheduled
MainSpec ==
    /\ MainInit
    /\ [][MainNext]_vars
    /\ WF_vars(StartupWait)
    /\ WF_vars(LoopAPass)
    /\ WF_vars(LoopBPass)

\* ------------------------------------------------------------ the event buffer

\* C11: with the receiver appending and the relay loop polling at once, the
\* events appended so far are exactly those get_messages handed out, in order,
\* followed by those still in the buffer (none lost, none twice); and a call
\* that finds the buffer empty returns None at once
C11_BufferFifo ==
    [][\A X \in Sides :
        /\ poll'[X].put = poll'[X].taken \o buf'[X]
        /\ (PollLen(X) /\ Len(buf[X]) = 0) =>
                (poll'[X].ret = <<>> /\ poll'[X].pc = "idle" /\ buf' = buf)]_vars

\* C11 witness: two events were appended and handed out while the receiver
\* ran, and a later call found the buffer empty
C11_Witness ==
    \E X \in Sides :
        /\ Len(poll[X].taken) = 2
        /\ poll[X].put = poll[X].taken
        /\ poll[X].ret = <<>>
        /\ poll[X].pc = "idle"

\* ------------------------------------------------------ reconnect and resume

\* C12: once the receiver has stopped on opcode 9 or on a close code other than
\* 4000, 4009 and 4004, it handles no further frame of the server until op 2
\* has been sent on a new socket
C12_FreshIdentify ==
    \A X \in Sides :
        hist[X].owes_identify # 0 =>
            ~(/\ hist[X].last.ev = "recv"
              /\ hist[X].last.n > hist[X].owes_identify
              /\ hist[X].last.frame.kind = "text")

\* C13: after the receiver stopped on opcode 7, on close code 4000 or 4009 or
\* on a receive error, op 6 goes to resume_gateway_url (gateway_url if that is
\* empty) with the stored session_id and sequence, and the session handles no
\* further frame until op 6 (or, after it, op 2) has been sent on a new socket
C13_ResumeFirst ==
    \A X \in Sides :
        LET h == hist[X]
        IN  /\ (h.last.ev = "send" /\ h.last.op = 6) =>
                    /\ h.last.url = IF gw[X].resume_gateway_url = ""
                                    THEN "gateway_url"
                                    ELSE gw[X].resume_gateway_url
                    /\ h.last.session_id = gw[X].session_id
                    /\ h.last.seq = gw[X].sequence
            /\ h.owes_resume =>
                    ~(/\ h.last.ev = "recv"
                      /\ h.last.frame.kind = "text"
                      /\ h.last.out = "continue")

\* the frame read after op 6 cannot be read or parsed: recv raised or gave a
\* close frame, the inflater rejected the data, or the text is not JSON or is
\* JSON with no opcode
ResumeReadFails(frame) ==
    \/ frame.kind # "text"
    \/ frame.body \in {"invalid", "inflate_error", "array"}

\* C14: when the frame after op 6 is read, the reconnect goes on to identify
\* afresh if and only if the frame is opcode 9 or could not be read or parsed;
\* on any other opcode it does not, and the session's fields stay as they are
C14_ResumeOutcome ==
    [][\A X \in Sides :
        ResumeRead(X) =>
            LET frame == hist'[X].last.frame
                fails == ResumeReadFails(frame)
                nine == ~fails /\ frame.json.op = 9
            IN  /\ thr'[X].reconnect = "identify" <=> (fails \/ nine)
                /\ ~(fails \/ nine) => (thr'[X].reconnect = "finish" /\ gw' = gw)]_vars

\* -------------------------------------------------------------- invalid token

\* C15: once the receiver has read close code 4004, run stays false and the
\* session opens no socket and sends neither op 2 nor op 6
C15_InvalidTokenTerminal ==
    [][\A X \in Sides :
        hist[X].gone =>
            /\ ~gw'[X].run
            /\ ws'[X].id = ws[X].id
            /\ ~(hist'[X] # hist[X] /\ hist'[X].last.ev = "send")]_vars

\* C16: once a gateway has read close code 4004 (its run is false), during the
\* wait for READY or with the relay loops running, the process exits in the end
C16_InvalidTokenExits ==
    \A X \in Sides : (~gw[X].run) ~> (main.pc = "exited")

\* C17: with the relay loops running and gateway X's error set, the next pass
\* of relay loop X ends the process
C17_ErrorIsFatal ==
    [][/\ (LoopAPass /\ gw["A"].error # None) => main'.pc = "exited"
       /\ (LoopBPass /\ gw["B"].error # None) => main'.pc = "exited"]_vars

\* ------------------------------------------------------------------- workers

\* C18: when an exception has ended the receiver thread or the heartbeater
\* thread of a session, the session's error field holds it
C18_WorkerErrorCaptured ==
    \A X \in Sides :
        (thr[X].receiver = "raised" \/ thr[X].heartbeat = "raised") => gw[X].error # None

\* C19: a heartbeat sent while heartbeat_received is false sets resumable and
\* ends the heartbeater's loop, and the heartbeater then sets
\* reconnect_requested; a heartbeat sent while it is true clears it and the
\* heartbeater goes on.  heartbeat_received turns true only when the receiver
\* handles opcode 11 or a heartbeater starts.
C19_HeartbeatMiss ==
    [][\A X \in Sides :
        /\ (HeartbeatBeat(X) /\ thr'[X].heartbeat # "raised") =>
                IF ~gw[X].heartbeat_received
                THEN gw'[X].resumable /\ thr'[X].heartbeat = "exit"
                ELSE ~gw'[X].heartbeat_received /\ thr'[X].heartbeat = "loop"
        /\ (thr[X].heartbeat = "exit" /\ thr'[X].heartbeat # "exit") =>
                gw'[X].reconnect_requested
        /\ (~gw[X].heartbeat_received /\ gw'[X].heartbeat_received) =>
                \/ HeartbeatStart(X)
                \/ /\ ReceiverRecv(X)
                   /\ hist'[X].last.frame = JsonFrame([op |-> 11])]_vars

\* C19 witness: opcode 11 was handled, a heartbeat then cleared
\* heartbeat_received, and the next heartbeat found it still false
C19_Witness ==
    \E X \in Sides :
        /\ thr[X].heartbeat = "exit"
        /\ gw[X].resumable
        /\ ~gw[X].heartbeat_received
        /\ hist[X].last.ev = "recv"
        /\ hist[X].last.frame = JsonFrame([op |-> 11])

\* C20: when the receiver of a compressed session gets data ending in
\* 00 00 ff ff that the inflater rejects, it leaves its receive loop (and so
\* goes on to set reconnect_requested)
C20_InflateErrorReconnects ==
    \A X \in Sides :
        (/\ compressed[X]
         /\ hist[X].last.ev = "recv"
         /\ hist[X].last.frame.kind = "text"
         /\ hist[X].last.frame.body = "inflate_error") =>
            hist[X].last.out = "break"

\* ------------------------------------------- two sessions and the inflater

\* both gateways connected by Bridge.__init__ (main.py:92-96): HELLO of the
\* compressed one has gone through the inflater
InfInit ==
    /\ RelayIdle
    /\ gw = [X \in Sides |-> NewGateway]
    /\ thr = [X \in Sides |-> [Connected EXCEPT !.heartbeat = "none"]]
    /\ ws = [X \in Sides |-> [id |-> 1, st |-> "open", url |-> "gateway_url", read |-> TRUE]]
    /\ hist = [X \in Sides |->
                [NoNotes EXCEPT !.last =
                    [ev |-> "send", op |-> 2, conn |-> 1, url |-> "gateway_url"]]]
    /\ poll = [X \in Sides |-> NoPolls]
    /\ nInputs = 0
    /\ main = MainIdle
    /\ inflator = InStream("A", 1)
    /\ fmt = NoCall

\* the threads of both sessions that read frames or replace the socket; the
\* heartbeaters and wait_online, which neither read a frame nor touch the
\* inflater, stay out
InfNext ==
    \E X \in Sides :
        \/ ReceiverStart(X)
        \/ ReceiverRecvClosed(X)
        \/ ReceiverRecv(X)
        \/ ReceiverExit(X)
        \/ ThreadGuard(X)
        \/ ReconnectBegin(X)
        \/ ResumeClose(X)
        \/ ResumeOpen(X)
        \/ ResumeRead(X)
        \/ ReconnectIdentify(X)
        \/ ReconnectFinish(X)

InfSpec == InfInit /\ [][InfNext]_vars

\* C21: a resume or a fresh identify of the other session (an uncompressed
\* one included) leaves the inflater that decodes session X's frames as it
\* is while X's connection stays open
C21_InflaterIsolation ==
    [][\A X \in Sides :
        (/\ compressed[X]
         /\ ws[X].st = "open"
         /\ ws'[X] = ws[X]
         /\ ResumeOpen(Other(X)) \/ ReconnectIdentify(Other(X))) =>
            inflator' = inflator]_vars

\* a step in which gateway X reads a text frame from its socket: the
\* receiver's recv_data (line 176) or resume's recv after op 6 (lines 423-426)
ReadsFrame(X) ==
    /\ nInputs' = nInputs + 1
    /\ hist'[X].last.ev \in {"recv", "resumed"}
    /\ hist'[X].last.n = nInputs + 1
    /\ hist'[X].last.frame.kind = "text"

FailedBeforeReady ==
    /\ main.pc = "wait_ready"
    /\ ~(gw["A"].ready /\ gw["B"].ready)
    /\ \E X \in Sides : gw[X].error # None \/ ~gw[X].run

\* C23: the relay loops are started (and so take events and make REST calls)
\* only at a moment when both gateways have ready = True; and once, before
\* that, a gateway has reported an error or has run = False, the relay loops
\* are never started
C23_StartupGating ==
    /\ [][(main'.pc = "loop_a" /\ main.pc # "loop_a") \/ (main'.loop_b = "loop" /\ main.loop_b # "loop")
            => gw["A"].ready /\ gw["B"].ready]_vars
    /\ [](FailedBeforeReady => [](main.pc # "loop_a" /\ main.loop_b = "none"))

\* C24: a failed send leaves no mapping.  When send_message returns None for a
\* MESSAGE_CREATE that relay loop X relays, no pair store changes (add_pair is
\* not called), nothing is created on the other backend, and the loop has
\* taken just that event: the rest of its buffer is there for the next pass.
C24_FailedSendNoMapping ==
    [][\A X \in Sides :
        (Took(X) /\ IsSend(Last(log'[X])) /\ Last(log'[X]).call[1].ret = None) =>
            /\ db' = db
            /\ msgs' = msgs
            /\ buf'[X] = Tail(buf[X])]_vars

\* C24 witness: a relay loop's send_message returned None for one event, and
\* the loop then handled a later event with a send_message that succeeded
C24_Witness ==
    \E X \in Sides : \E i, j \in DOMAIN log[X] :
        /\ i < j
        /\ IsSend(log[X][i]) /\ log[X][i].call[1].ret = None
        /\ IsSend(log[X][j]) /\ log[X][j].call[1].ret # None
        /\ RowsOf(db[X], X, log[X][i].evt.d.channel_id, log[X][i].evt.d.id) = {}
        /\ RowsOf(db[X], X, log[X][j].evt.d.channel_id, log[X][j].evt.d.id) # {}

\* ---------------------------------------- REST calls and network failures

\* REST calls of both relay loops together that RestSpec follows
MaxCalls == 2

\* how connection.request / getresponse can end: a response with the status
\* the method takes for success, a response with another status,
\* socket.gaierror (DNS failure), TimeoutError, ConnectionResetError,
\* ConnectionRefusedError
NetOutcomes == {"ok", "status", "gaierror", "timeout", "reset", "refused"}

\* the except clause of every REST method: (socket.gaierror, TimeoutError)
CaughtByRest == {"gaierror", "timeout"}

\* Discord.send_message, lines 116-129, by how the request ends: the value
\* returned (as Python prints it; "id" is the new message's id), or the
\* exception that leaves the method
send_message_Ends(net) ==
    IF net \in CaughtByRest THEN [how |-> "return", ret |-> "None"]
    ELSE IF net = "ok" THEN [how |-> "return", ret |-> "id"]
    ELSE IF net = "status" THEN [how |-> "return", ret |-> "None"]
    ELSE [how |-> "raise", exc |-> net]

\* Discord.send_update_message, lines 141-153
send_update_message_Ends(net) ==
    IF net \in CaughtByRest THEN [how |-> "return", ret |-> "False"]
    ELSE IF net = "ok" THEN [how |-> "return", ret |-> "True"]
    ELSE IF net = "status" THEN [how |-> "return", ret |-> "False"]
    ELSE [how |-> "raise", exc |-> net]

\* Discord.send_delete_message, lines 160-171
send_delete_message_Ends(net) ==
    IF net \in CaughtByRest THEN [how |-> "return", ret |-> "None"]
    ELSE IF net = "status" THEN [how |-> "return", ret |-> "False"]
    ELSE IF net = "ok" THEN [how |-> "return", ret |-> "True"]
    ELSE [how |-> "raise", exc |-> net]

\* relay loop X is running: loop_a in the main thread, loop_b in its own
RelayRuns(X) == IF X = "A" THEN main.pc = "loop_a" ELSE main.loop_b = "loop"

\* relay loop X calls REST method fn, which ends as `end`.  Neither loop has a
\* try around its REST calls: an exception ends loop_b's thread, and in loop_a
\* ends the main thread and with it the process (the other threads are daemons)
RelayCalls(X, fn, net, end) ==
    /\ RelayRuns(X)
    /\ Len(log["A"]) + Len(log["B"]) < MaxCalls
    /\ log' = [log EXCEPT ![X] = Append(@, [fn |-> fn, net |-> net, end |-> end])]
    /\ main' = IF end.how = "return" THEN main
               ELSE IF X = "A" THEN [main EXCEPT !.pc = "exited", !.loop_b = "dead"]
               ELSE [main EXCEPT !.loop_b = "dead"]
    /\ UNCHANGED <<buf, db, msgs, nextId, nEvents, gw, thr, ws, hist, poll, nInputs, inflator, fmt>>

\* relay loop X relays a MESSAGE_CREATE
RestSend(X) ==
    \E net \in NetOutcomes : RelayCalls(X, "send_message", net, send_message_Ends(net))

\* relay loop X relays a MESSAGE_UPDATE
RestUpdate(X) ==
    \E net \in NetOutcomes :
        RelayCalls(X, "send_update_message", net, send_update_message_Ends(net))

\* relay loop X relays a MESSAGE_DELETE
RestDelete(X) ==
    \E net \in NetOutcomes :
        RelayCalls(X, "send_delete_message", net, send_delete_message_Ends(net))

\* both relay loops running
RestInit ==
    /\ RelayIdle
    /\ gw = [X \in Sides |-> [NewGateway EXCEPT !.ready = TRUE]]
    /\ thr = [X \in Sides |-> Connected]
    /\ ws = [X \in Sides |-> [id |-> 1, st |-> "open", url |-> "gateway_url", read |-> TRUE]]
    /\ hist = [X \in Sides |-> NoNotes]
    /\ poll = [X \in Sides |-> NoPolls]
    /\ nInputs = 0
    /\ main = [MainIdle EXCEPT !.pc = "loop_a", !.loop_b = "loop"]
    /\ inflator = InStream("A", 1)
    /\ fmt = NoCall

RestNext ==
    \E X \in Sides :
        \/ RestSend(X)
        \/ RestUpdate(X)
        \/ RestDelete(X)

RestSpec == RestInit /\ [][RestNext]_vars

\* C25: for every kind of network failure during a REST call (timeout, DNS
\* failure, connection reset or refused) send_message, send_update_message and
\* send_delete_message return None or False instead of raising, and the relay
\* loop that called stays alive
C25_RestNeverRaises ==
    \A X \in Sides : \A i \in DOMAIN log[X] :
        log[X][i].net \in {"gaierror", "timeout", "reset", "refused"} =>
            /\ log[X][i].end.how = "return"
            /\ log[X][i].end.ret \in {"None", "False"}
            /\ RelayRuns(X)

\* C26: wait-online.  After a reconnect attempt failed with an address error
\* wait_online sets wait = True and asks for a reconnect again and again
\* while run and wait are true, and a receiver that tests wait leaves its loop;
\* wait goes back to False only in an attempt that succeeded, that is with
\* the session's socket open, and only then does the wait-online loop end
C26_WaitOnline ==
    [][\A X \in Sides :
        /\ WaitOnlineStart(X) => gw'[X].wait
        /\ (WaitOnlineLoop(X) /\ gw[X].run /\ gw[X].wait) => gw'[X].reconnect_requested
        /\ (ReceiverStart(X) /\ gw[X].wait) => thr'[X].receiver = "exit"
        /\ (gw[X].run /\ gw[X].wait /\ ~gw'[X].wait) => ws'[X].st = "open"]_vars

\* ------------------------------------------------- the threads, scheduled

\* every thread of the session that can take a step on its own gets to take
\* it: the receiver (but for the arrival of a frame, which is the server's
\* doing), the heartbeater, thread_guard and wait_online
GwFair ==
    \A X \in Sides :
        /\ WF_vars(ReceiverStart(X) \/ ReceiverRecvClosed(X) \/ ReceiverExit(X))
        /\ WF_vars(HeartbeatStart(X) \/ HeartbeatBeat(X) \/ HeartbeatStop(X) \/ HeartbeatExit(X))
        /\ WF_vars(ThreadGuard(X))
        /\ WF_vars(WaitOnlineStart(X) \/ WaitOnlineLoop(X))

GwLiveSpec == GwInit /\ [][GwNext]_vars /\ GwFair

\* the receiver, heartbeater, thread_guard and wait_online of gateway X have
\* all ended or were never started
WorkersEnded(X) ==
    /\ ~Alive(thr[X].receiver)
    /\ ~Alive(thr[X].heartbeat)
    /\ ~Alive(thr[X].guard)
    /\ ~Alive(thr[X].waiter)

\* C27: cancellation.  Once run is False, the session's receiver,
\* heartbeater, thread_guard and wait_online all eventually end; and a
\* receiver or heartbeater started after that goes to its end without an
\* iteration of its loop: no frame is read and no heartbeat is sent while run
\* is False
C27_Cancellation ==
    /\ [][\A X \in Sides : ~gw[X].run =>
            /\ ReceiverStart(X) => thr'[X].receiver = "exit"
            /\ ~ReceiverRecv(X)
            /\ ~HeartbeatBeat(X)]_vars
    /\ \A X \in Sides : ~gw[X].run ~> WorkersEnded(X)

\* C27 witness: run is False, a reconnect that was under way has started a
\* receiver and a heartbeater again, and all four workers have ended
C27_Witness ==
    \E X \in Sides :
        /\ ~gw[X].run
        /\ WorkersEnded(X)
        /\ thr[X].reconnect = "dead"
        /\ thr[X].receiver = "dead"
        /\ thr[X].heartbeat = "dead"
        /\ ws[X].id > 1

\* C28: store ownership per direction.  A pass of relay loop X leaves the
\* other direction's pair store as it is (it only reads it, for get_source),
\* and pair store X changes only in a pass of relay loop X: no step has both
\* loops writing one store.
C28_StoreOwnership ==
    [][\A X \in Sides :
        /\ Took(X) => db'[Other(X)] = db[Other(X)]
        /\ db'[X] # db[X] => (Took(X) /\ ~Took(Other(X)))]_vars

\* C28 witness: both loops have added a row to their own store, and loop X
\* has since removed its row again while the other store kept its own
C28_Witness ==
    \E X \in Sides : \E i, j \in DOMAIN log[X] : \E k \in DOMAIN log[Other(X)] :
        /\ i < j
        /\ IsSend(log[X][i]) /\ log[X][i].call[1].ret # None
        /\ log[X][j].evt.op = "MESSAGE_DELETE" /\ log[X][j].call # <<>>
        /\ IsSend(log[Other(X)][k]) /\ log[Other(X)][k].call[1].ret # None
        /\ db[X] = {}
        /\ db[Other(X)] # {}

\* ---------------------------------------------------------- the formatter

\* pieces in a text that FmtSpec draws
MaxLen == 2

\* A text is the sequence of its pieces: stretches of plain text and the
\* tokens the regular expressions of bridge/formatter.py match.
Plain(s) == [t |-> "text", s |-> s]

\* "<@id>", what match_mention matches
Mention(id) == [t |-> "mention", id |-> id]

\* "<@&id>", what match_role matches
RoleMention(id) == [t |-> "role", id |-> id]

\* "<#id>", what match_channel matches
ChannelMention(id) == [t |-> "channel", id |-> id]

\* "<:name:id>", what match_d_emoji matches
Emoji(name, id) == [t |-> "emoji", name |-> name, id |-> id]

\* "https://discord.com/channels/guild/channel" with "/message" or without,
\* what match_discord_channel_url matches
ChannelUrl(channel, message) == [t |-> "url", channel |-> channel, message |-> message]

\* "".join(result)
RECURSIVE Join(_)
Join(result) == IF result = <<>> THEN <<>> ELSE Head(result) \o Join(Tail(result))

\* the first entry of a list of dicts whose "id" is id: <<>> when the for
\* loop ends without a break
FirstWithId(list, id) ==
    LET hits == {i \in DOMAIN list : list[i].id = id}
    IN  IF hits = {} THEN <<>>
        ELSE <<list[CHOOSE i \in hits : \A j \in hits : i <= j]>>

\* replace_discord_emoji
replace_discord_emoji(text) ==
    Join([i \in DOMAIN text |->
            IF text[i].t = "emoji" THEN <<Plain(<<":", text[i].name, ":">>)>>
            ELSE <<text[i]>>])

\* replace_mentions: for a match the text before it is appended, then
\* "@username" if a user of the list has the id; nothing otherwise
replace_mentions(text, usernames_ids) ==
    Join([i \in DOMAIN text |->
            IF text[i].t = "mention"
            THEN LET user == FirstWithId(usernames_ids, text[i].id)
                 IN  IF user # <<>> THEN <<Plain(<<"@", user[1].username>>)>> ELSE <<>>
            ELSE <<text[i]>>])

\* replace_roles
replace_roles(text, roles_ids) ==
    Join([i \in DOMAIN text |->
            IF text[i].t = "role"
            THEN LET role == FirstWithId(roles_ids, text[i].id)
                 IN  IF role # <<>> THEN <<Plain(<<"@", role[1].name>>)>>
                     ELSE <<Plain(<<"@unknown_role">>)>>
            ELSE <<text[i]>>])

\* replace_discord_url
replace_discord_url(text) ==
    Join([i \in DOMAIN text |->
            IF text[i].t = "url"
            THEN IF text[i].message # ""
                 THEN <<ChannelMention(text[i].channel), Plain(<<">MSG">>)>>
                 ELSE <<ChannelMention(text[i].channel)>>
            ELSE <<text[i]>>])

\* replace_channels
replace_channels(text, channels_ids) ==
    Join([i \in DOMAIN text |->
            IF text[i].t = "channel"
            THEN LET channel == FirstWithId(channels_ids, text[i].id)
                 IN  IF channel # <<>> THEN <<Plain(<<"#", channel[1].name>>)>>
                     ELSE <<Plain(<<"@unknown_channel">>)>>
            ELSE <<text[i]>>])

\* clean_type: the part of "image/png" before the "/"
clean_type(embed_type) == embed_type[1]

\* format_poll: the quoted lines of a poll, as one piece
format_poll(p) == <<Plain(<<"> *Poll*", p.question>>)>>

\* the line break "\n"
NewLine == Plain(<<"\n">>)

\* build_message, lines 141-142: the line for an interaction; "+--< " stands
\* for the four characters U+256D U+2500 U+2500 U+2919 and the space
InteractionLine(interaction) ==
    Plain(<<"+--< ", interaction.username, " used [", interaction.command, "]">>)

\* build_message, lines 149-154: the five rewrites of the message's content
Rewritten(content, mentions, roles, channels_ids) ==
    replace_channels(
        replace_discord_url(
            replace_roles(
                replace_mentions(replace_discord_emoji(content), mentions),
                roles)),
        channels_ids)

\* build_message, lines 156-166: the embeds, one after the other
RECURSIVE WithEmbeds(_, _)
WithEmbeds(content, embeds) ==
    IF embeds = <<>> THEN content
    ELSE LET embed == Head(embeds)
             embed_url == embed.url
             line == IF "main_url" \notin DOMAIN embed
                     THEN <<Plain(<<"[(", clean_type(embed.type), " attachment)](", embed_url, ")">>)>>
                     ELSE IF embed.type = <<"rich">>
                     THEN <<Plain(<<"(rich embed):\n", embed_url>>)>>
                     ELSE <<Plain(<<"[(", clean_type(embed.type), " embed)](", embed_url, ")">>)>>
             next == IF embed_url # "" /\ ~embed.hidden
                        /\ ~\E i \in DOMAIN content : content[i] = Plain(<<embed_url>>)
                     THEN (IF content # <<>> THEN content \o <<NewLine>> ELSE content) \o line
                     ELSE content
         IN  WithEmbeds(next, Tail(embeds))

\* build_message, lines 168-179: the stickers, one after the other
RECURSIVE WithStickers(_, _)
WithStickers(content, stickers) ==
    IF stickers = <<>> THEN content
    ELSE LET sticker == Head(stickers)
             sticker_type == sticker.format_type
             line == IF sticker_type = 1 THEN Plain(<<"[(png sticker)](", sticker.name, ")">>)
                     ELSE IF sticker_type = 2 THEN Plain(<<"[(apng sticker)](", sticker.name, ")">>)
                     ELSE IF sticker_type = 3 THEN Plain(<<"(lottie sticker: ", sticker.name, ")">>)
                     ELSE Plain(<<"[(gif sticker)](", sticker.name, ")">>)
         IN  WithStickers((IF content # <<>> THEN content \o <<NewLine>> ELSE content) \o <<line>>,
                          Tail(stickers))

\* build_message.  message.interaction is <<>> for None.
build_message(message, roles, channels_ids) ==
    LET start == IF message.interaction # <<>>
                 THEN <<InteractionLine(message.interaction[1])>>
                 ELSE <<>>
        text == IF "poll" \in DOMAIN message THEN format_poll(message.poll)
                ELSE message.content
        content == IF text # <<>>
                   THEN Rewritten(text, message.mentions, roles, channels_ids)
                   ELSE start
    IN  WithStickers(WithEmbeds(content, message.embeds), message.stickers)

\* the pieces FmtSpec builds its texts from
Pieces ==
    {Plain(<<"hi">>), Mention("42"), Mention("7"), RoleMention("5"),
     ChannelMention("9"), Emoji("smile", "3"), ChannelUrl("9", "")}

\* the texts of at most MaxLen pieces
Texts == UNION {[1..n -> Pieces] : n \in 0..MaxLen}

\* the "mentions" lists of a message
MentionLists ==
    {<<>>,
     <<[id |-> "42", username |-> "ada"]>>,
     <<[id |-> "42", username |-> "ada"], [id |-> "7", username |-> "bob"]>>}

\* the roles the bridge passes to build_message: self.roles, which stays []
Roles == <<>>

\* the channels the bridge passes to build_message: self.channels, which stays []
Channels == <<>>

\* the messages FmtSpec builds: with or without an interaction, embed, sticker
\* and poll
Messages ==
    LET plain == [interaction : {<<>>, <<[username |-> "eve", command |-> "roll"]>>},
                  content : Texts,
                  mentions : MentionLists,
                  embeds : {<<>>, <<[url |-> "u", hidden |-> FALSE, type |-> <<"image", "png">>]>>},
                  stickers : {<<>>, <<[format_type |-> 1, name |-> "wave"]>>}]
    IN  plain \cup {m @@ [poll |-> [question |-> "why"]] : m \in {p \in plain : p.content = <<>>}}

\* replace_mentions is called
CallReplaceMentions ==
    /\ fmt = NoCall
    /\ \E text \in Texts : \E usernames_ids \in MentionLists :
        fmt' = [fn |-> "replace_mentions", text |-> text, usernames_ids |-> usernames_ids,
                ret |-> replace_mentions(text, usernames_ids)]
    /\ UNCHANGED <<buf, relayVars, gw, thr, ws, hist, poll, nInputs, main, inflator>>

\* build_message is called
CallBuildMessage ==
    /\ fmt = NoCall
    /\ \E message \in Messages :
        fmt' = [fn |-> "build_message", message |-> message,
                ret |-> build_message(message, Roles, Channels)]
    /\ UNCHANGED <<buf, relayVars, gw, thr, ws, hist, poll, nInputs, main, inflator>>

FmtInit ==
    /\ RelayIdle
    /\ GatewaysIdle

FmtNext == CallReplaceMentions \/ CallBuildMessage

FmtSpec == FmtInit /\ [][FmtNext]_vars

\* C29: replace_mentions replaces "<@id>" by "@username" when id is in the
\* mentions list and leaves the token "<@id>" as it is when id is not in the
\* list; the text around the mention is kept in both cases
C29_UnresolvedMention ==
    fmt.fn = "replace_mentions" =>
        /\ Len(fmt.ret) = Len(fmt.text)
        /\ \A i \in DOMAIN fmt.text :
            fmt.ret[i] =
                IF fmt.text[i].t = "mention"
                    /\ \E k \in DOMAIN fmt.usernames_ids : fmt.usernames_ids[k].id = fmt.text[i].id
                THEN Plain(<<"@", FirstWithId(fmt.usernames_ids, fmt.text[i].id)[1].username>>)
                ELSE fmt.text[i]

\* C30: for every message with interaction set, the text build_message
\* returns starts with the line "+--< <username> used [<command>]", followed
\* on the next line by the rewritten content when the content is not empty
\* (stated for the messages without a poll, whose content is their own)
C30_InteractionPrefix ==
    (/\ fmt.fn = "build_message"
     /\ fmt.message.interaction # <<>>
     /\ "poll" \notin DOMAIN fmt.message) =>
        LET m == fmt.message
            rewritten == Rewritten(m.content, m.mentions, Roles, Channels)
        IN  /\ Len(fmt.ret) >= 1
            /\ fmt.ret[1] = InteractionLine(m.interaction[1])
            /\ m.content # <<>> =>
                /\ Len(fmt.ret) >= 2 + Len(rewritten)
                /\ fmt.ret[2] = NewLine
                /\ SubSeq(fmt.ret, 3, 2 + Len(rewritten)) = rewritten

\* ------------------------------------------------------ the relay branches

\* the two pair stores with no row at all
EmptyStores == [S \in Sides |-> {}]

\* C31: channel filter.  An event whose channel_id is not one of the source
\* channels configured for direction X causes no REST call (nothing changes
\* on the other backend) and no pair-store write in relay loop X, and what
\* the loop does with it does not depend on what the stores hold (no read);
\* an event of a configured channel that the loop relays goes to the target
\* channel bridges_X[channel_id] and to no other: the call names that channel
\* and whatever appears on the other backend appears there.
C31_ChannelFilter ==
    [][\A X \in Sides : Took(X) =>
        LET ent == Last(log'[X])
            d == ent.evt.d
            Y == Other(X)
        IN  /\ d.channel_id \notin channels(X) =>
                /\ ent.call = <<>>
                /\ \A ok \in BOOLEAN : RestCall(X, ent.evt, EmptyStores, ok) = <<>>
                /\ StoreAfter(X, ent.evt, {}, <<>>) = {}
                /\ db' = db
                /\ msgs' = msgs
                /\ nextId' = nextId
                /\ buf'[Y] = buf[Y]
            /\ ent.call # <<>> =>
                /\ d.channel_id \in channels(X)
                /\ ent.call[1].channel_id = bridges(X)[d.channel_id]
                /\ \A m \in msgs'[Y] \ msgs[Y] : m.channel_id = bridges(X)[d.channel_id]
                /\ \A i \in DOMAIN buf'[Y] :
                        i > Len(buf[Y]) => buf'[Y][i].d.channel_id = bridges(X)[d.channel_id]]_vars

\* C31 witness: one relay loop has taken an event of a channel that is not
\* configured, with no call, and has relayed an event of a configured one,
\* which the other backend has dispatched in the target channel
C31_Witness ==
    \E X \in Sides : \E i, j \in DOMAIN log[X] :
        /\ log[X][i].evt.d.channel_id \notin channels(X)
        /\ log[X][i].call = <<>>
        /\ IsSend(log[X][j]) /\ log[X][j].call[1].ret # None
        /\ \E e \in Delivered(Other(X)) :
            /\ e.d.id = log[X][j].call[1].ret
            /\ e.d.channel_id = bridges(X)[log[X][j].evt.d.channel_id]

\* C32: relay_update.  When relay loop X handles a MESSAGE_UPDATE for source
\* id s that passes its filter, it calls send_update_message on the target id
\* store X maps s to, in the target channel, when there is such a row, and
\* makes no REST call when there is none; and after a MESSAGE_UPDATE, relayed
\* or not, and whatever send_update_message returned, both pair stores are as
\* they were.
C32_RelayUpdate ==
    [][\A X \in Sides : (Took(X) /\ Last(log'[X]).evt.op = "MESSAGE_UPDATE") =>
        LET ent == Last(log'[X])
            d == ent.evt.d
        IN  /\ db' = db
            /\ PassesFilter(X, d) =>
                LET target_channel == bridges(X)[d.channel_id]
                    target_message == get_target(db[X], PairName(d.channel_id, target_channel), d.id)
                IN  IF target_message # None
                    THEN IsCallOn(ent.call, "send_update_message", target_channel, target_message)
                    ELSE ent.call = <<>>]_vars

\* C32 witness: a relay loop has relayed two updates of one mirrored source id,
\* send_update_message returned True for one and False for the other, and the
\* store still maps the source id to the target the calls named
C32_Witness ==
    \E X \in Sides : \E i, j \in DOMAIN log[X] :
        /\ log[X][i].evt.op = "MESSAGE_UPDATE" /\ log[X][i].call # <<>>
        /\ log[X][j].evt.op = "MESSAGE_UPDATE" /\ log[X][j].call # <<>>
        /\ log[X][i].evt.d.id = log[X][j].evt.d.id
        /\ log[X][i].call[1].ret
        /\ ~log[X][j].call[1].ret
        /\ {r.target_id : r \in RowsOf(db[X], X, log[X][j].evt.d.channel_id, log[X][j].evt.d.id)}
                = {log[X][j].call[1].message_id}

\* ------------------------------------------ the delete branch, step by step

\* MESSAGE_DELETE events waiting in both gateways' buffers together when
\* DelSpec starts
MaxDeletes == 2

\* the source ids and the rows a pair store may hold for them
DelIds == {"1", "2"}

\* the mirror of source id s
DelTarget(s) == IF s = "1" THEN "7" ELSE "8"

\* the rows pair store X may hold when DelSpec starts
DelRows(X) ==
    {[pair |-> PairName(c, bridges(X)[c]), source_id |-> s, target_id |-> DelTarget(s)] :
        c \in channels(X), s \in DelIds}

\* what Gateway.receiver buffers for a MESSAGE_DELETE: id, channel_id, guild_id
DelData(X) ==
    {[id |-> s, channel_id |-> c, guild_id |-> GuildId[X]] : s \in DelIds, c \in AllChannels[X]}

\* the buffers of gateway X: up to MaxDeletes delete events
DelBuffers(X) == UNION {[1..n -> DelData(X)] : n \in 0..MaxDeletes}

\* relay loop X stands between two statements of its delete branch
InDelete(X) ==
    /\ Len(log[X]) > 0
    /\ \/ Last(log[X]).step = "get_target" /\ Last(log[X]).target_message # None
       \/ Last(log[X]).step = "send_delete_message" /\ Last(log[X]).end.how = "return"

\* loop_a / loop_b: get_messages, the filter, and for MESSAGE_DELETE the
\* lookup target_message = get_target(channel_pair, source_message)
DeleteLookup(X) ==
    /\ RelayRuns(X)
    /\ ~InDelete(X)
    /\ Len(buf[X]) > 0
    /\ LET got == get_messages(buf[X])
           data == got.msg.d
       IN  /\ buf' = [buf EXCEPT ![X] = got.buffer]
           /\ log' = [log EXCEPT ![X] = Append(@,
                IF PassesFilter(X, data)
                THEN LET channel_pair == PairName(data.channel_id, bridges(X)[data.channel_id])
                     IN  [step |-> "get_target", evt |-> got.msg,
                          target_message |->
                            IF channel_pair \in bridges_txt(X)
                            THEN get_target(db[X], channel_pair, data.id)
                            ELSE None]
                ELSE [step |-> "filtered", evt |-> got.msg])]
    /\ UNCHANGED <<db, msgs, nextId, nEvents, gwVars>>

\* loop_a / loop_b, under `if target_message:`: send_delete_message on the
\* target; an exception it lets through ends the loop's thread
DeleteSend(X) ==
    /\ RelayRuns(X)
    /\ Len(log[X]) > 0
    /\ Last(log[X]).step = "get_target"
    /\ Last(log[X]).target_message # None
    /\ \E net \in NetOutcomes :
        LET end == send_delete_message_Ends(net)
            e == Last(log[X]).evt
        IN  /\ log' = [log EXCEPT ![X] = Append(@,
                    [step |-> "send_delete_message", evt |-> e,
                     channel_id |-> bridges(X)[e.d.channel_id],
                     message_id |-> Last(log[X]).target_message,
                     end |-> end])]
            /\ main' = IF end.how = "return" THEN main
                       ELSE IF X = "A" THEN [main EXCEPT !.pc = "exited", !.loop_b = "dead"]
                       ELSE [main EXCEPT !.loop_b = "dead"]
    /\ UNCHANGED <<buf, db, msgs, nextId, nEvents, gw, thr, ws, hist, poll, nInputs, inflator, fmt>>

\* the delete branch that keeps the pair unless the target was deleted
DeletePair_OnlyOnSuccess(X) ==
    /\ RelayRuns(X)
    /\ Len(log[X]) > 0
    /\ Last(log[X]).step = "send_delete_message"
    /\ Last(log[X]).end.how = "return"
    /\ LET e == Last(log[X]).evt
           channel_pair == PairName(e.d.channel_id, bridges(X)[e.d.channel_id])
       IN  /\ db' = [db EXCEPT ![X] =
                    IF Last(log[X]).end.ret = "True"
                    THEN delete_pair(@, channel_pair, e.d.id) ELSE @]
           /\ log' = [log EXCEPT ![X] = Append(@,
                    IF Last(log[X]).end.ret = "True"
                    THEN [step |-> "delete_pair", evt |-> e]
                    ELSE [step |-> "kept", evt |-> e])]
    /\ UNCHANGED <<buf, msgs, nextId, nEvents, gwVars>>

\* loop_a / loop_b: database.delete_pair(channel_pair, source_message), the
\* statement after the call of send_delete_message
DeletePair(X) ==
    /\ RelayRuns(X)
    /\ Len(log[X]) > 0
    /\ Last(log[X]).step = "send_delete_message"
    /\ Last(log[X]).end.how = "return"
    /\ LET e == Last(log[X]).evt
           channel_pair == PairName(e.d.channel_id, bridges(X)[e.d.channel_id])
       IN  /\ db' = [db EXCEPT ![X] = delete_pair(@, channel_pair, e.d.id)]
           /\ log' = [log EXCEPT ![X] = Append(@, [step |-> "delete_pair", evt |-> e])]
    /\ UNCHANGED <<buf, msgs, nextId, nEvents, gwVars>>

\* both loops running, delete events buffered, any rows in the stores
DelInit ==
    /\ \E fa \in DelBuffers("A"), fb \in DelBuffers("B") :
        /\ Len(fa) + Len(fb) <= MaxDeletes
        /\ buf = [X \in Sides |->
                    LET f == IF X = "A" THEN fa ELSE fb
                    IN  [i \in DOMAIN f |-> [op |-> "MESSAGE_DELETE", seq |-> i, d |-> f[i]]]]
    /\ db \in [Sides -> SUBSET (DelRows("A") \cup DelRows("B"))]
    /\ \A X \in Sides : db[X] \subseteq DelRows(X)
    /\ msgs = [X \in Sides |-> {}]
    /\ nextId = [X \in Sides |-> 1]
    /\ log = [X \in Sides |-> <<>>]
    /\ nEvents = 0
    /\ gw = [X \in Sides |-> [NewGateway EXCEPT !.ready = TRUE]]
    /\ thr = [X \in Sides |-> Connected]
    /\ ws = [X \in Sides |-> [id |-> 1, st |-> "open", url |-> "gateway_url", read |-> TRUE]]
    /\ hist = [X \in Sides |-> NoNotes]
    /\ poll = [X \in Sides |-> NoPolls]
    /\ nInputs = 0
    /\ main = [MainIdle EXCEPT !.pc = "loop_a", !.loop_b = "loop"]
    /\ inflator = InStream("A", 1)
    /\ fmt = NoCall

DelNext ==
    \E X \in Sides :
        \/ DeleteLookup(X)
        \/ DeleteSend(X)
        \/ DeletePair(X)

DelSpec == DelInit /\ [][DelNext]_vars

\* C33: relay_delete.  For a MESSAGE_DELETE whose source id has a mapped
\* target, relay loop X calls send_delete_message on that target first and
\* delete_pair afterwards: every delete_pair comes right after a call of
\* send_delete_message for the same event that returned, after every call that
\* returned True, False or None the next thing the loop does is delete_pair
\* (while its thread lives, that step and no other is open to it), and once
\* delete_pair is done the store holds no row for the source id.  When there is no mapping neither call is made:
\* a lookup that found nothing is followed by the lookup for the next event.
C33_RelayDelete ==
    \A X \in Sides : \A i \in DOMAIN log[X] :
        LET ent == log[X][i]
            d == ent.evt.d
        IN  /\ ent.step = "send_delete_message" =>
                /\ i > 1
                /\ log[X][i - 1].step = "get_target"
                /\ log[X][i - 1].evt = ent.evt
                /\ log[X][i - 1].target_message = ent.message_id
                /\ ent.message_id # None
                /\ ent.channel_id = bridges(X)[d.channel_id]
            /\ ent.step = "delete_pair" =>
                /\ i > 1
                /\ log[X][i - 1].step = "send_delete_message"
                /\ log[X][i - 1].evt = ent.evt
                /\ log[X][i - 1].end.how = "return"
                /\ RowsOf(db[X], X, d.channel_id, d.id) = {}
            /\ (ent.step = "send_delete_message" /\ ent.end.how = "return") =>
                /\ ent.end.ret \in {"True", "False", "None"}
                /\ IF i < Len(log[X])
                   THEN log[X][i + 1].step = "delete_pair" /\ log[X][i + 1].evt = ent.evt
                   ELSE RelayRuns(X) => (ENABLED DeletePair(X) /\ ~ENABLED DeleteLookup(X))
            /\ (ent.step = "get_target" /\ ent.target_message = None /\ i < Len(log[X])) =>
                log[X][i + 1].step \in {"get_target", "filtered"}
            /\ (ent.step = "get_target" /\ ent.target_message # None /\ i < Len(log[X])) =>
                log[X][i + 1].step = "send_delete_message"

\* C33 witness: a relay loop has handled two deletes with a mapping, one whose
\* send_delete_message returned False or None and one whose returned True,
\* and has removed both pairs
C33_Witness ==
    \E X \in Sides : \E i, j \in DOMAIN log[X] :
        /\ log[X][i].step = "send_delete_message"
        /\ log[X][i].end.how = "return" /\ log[X][i].end.ret \in {"False", "None"}
        /\ i < Len(log[X]) /\ log[X][i + 1].step = "delete_pair"
        /\ log[X][j].step = "send_delete_message"
        /\ log[X][j].end.how = "return" /\ log[X][j].end.ret = "True"
        /\ j < Len(log[X]) /\ log[X][j + 1].step = "delete_pair"
        /\ RowsOf(db[X], X, log[X][i].evt.d.channel_id, log[X][i].evt.d.id) = {}
        /\ RowsOf(db[X], X, log[X][j].evt.d.channel_id, log[X][j].evt.d.id) = {}

\* ------------------------------------- the session's threads, one by one
\*
\* In ThreadsSpec thr[X] holds every thread the session ever started
\* (threads[i]: the function it runs and where it stands) and the three
\* attributes through which the code sees them: receiver_thread,
\* heartbeat_thread, reconnect_thread (an index into threads; 0 is the
\* threading.Thread() of connect, line 144, which was never started).

\* threads one session starts in all, the two of connect included; connects
\* that fail are counted in nInputs, up to MaxInputs
MaxThreads == 5

\* what most statements of the threads leave alone
threadsRest == <<buf, db, msgs, nextId, log, nEvents, hist, poll, nInputs, main, inflator, fmt>>

\* threading.Thread(target=...).start(): a new thread at the top of its function
Started(threads, target, pc) == Append(threads, [target |-> target, pc |-> pc, conn |-> 0])

\* Thread.is_alive() of the thread attribute `handle` stands for
is_alive(X, handle) ==
    handle # 0 /\ Alive(thr[X].threads[handle].pc)

\* the threads of session X that run `target` and have not ended
Live(X, target) ==
    {i \in DOMAIN thr[X].threads :
        thr[X].threads[i].target = target /\ Alive(thr[X].threads[i].pc)}

\* thread i of session X runs `target` and stands at pc
At(X, i, target, pc) ==
    /\ i \in DOMAIN thr[X].threads
    /\ thr[X].threads[i].target = target
    /\ thr[X].threads[i].pc = pc

\* a thread may still be started
MayStart(X) == Len(thr[X].threads) < MaxThreads

\* the notes of session X after a disconnect cause showed on the socket it
\* has: a frame that ends the receiver's loop, a receive error, a heartbeat
\* that could not be sent or was not answered
Caused(X) == Noted(X, [ev |-> "cause", conn |-> ws[X].id])

\* the notes of session X after a reconnect task ran to its end: the session
\* is recovered on the socket it has, unless that socket has shown a cause
Completed(X) ==
    IF hist[X].last = [ev |-> "cause", conn |-> ws[X].id]
    THEN hist[X]
    ELSE Noted(X, [ev |-> "recovered", conn |-> ws[X].id])

\* Gateway.receiver, line 170
receiver_Start(X, i) ==
    /\ At(X, i, "receiver", "start")
    /\ gw' = [gw EXCEPT ![X].resumable = FALSE]
    /\ thr' = [thr EXCEPT ![X].threads[i].pc = "test"]
    /\ UNCHANGED <<ws, threadsRest>>

\* Gateway.receiver, lines 172-174: the while test, and recv_data called on
\* the socket self.ws stands for at that moment
receiver_Test(X, i) ==
    /\ At(X, i, "receiver", "test")
    /\ thr' = [thr EXCEPT ![X].threads[i] =
                IF gw[X].run /\ ~gw[X].wait
                THEN [@ EXCEPT !.pc = "recv", !.conn = ws[X].id]
                ELSE [@ EXCEPT !.pc = "exit"]]
    /\ UNCHANGED <<gw, ws, threadsRest>>

\* what recv_data and the handling of the frame come to on an open socket: a
\* frame after which the loop goes round (op 11 here), a stop that asks for
\* a resume (op 7), one that does not (op 9), the connection lost, close code
\* 4004, or an exception that leaves receiver
RecvEnds == {"ack", "op7", "op9", "lost", "close_4004", "raise"}

\* Gateway.receiver, lines 174-346: one iteration from recv_data on
receiver_Recv(X, i) ==
    /\ At(X, i, "receiver", "recv")
    /\ \E end \in RecvEnds :
        LET here == thr[X].threads[i].conn = ws[X].id /\ ws[X].st = "open"
            how == IF here THEN end ELSE "lost"
        IN  /\ gw' = [gw EXCEPT ![X] =
                    IF how = "ack" THEN [@ EXCEPT !.heartbeat_received = TRUE]
                    ELSE IF how \in {"op7", "lost"} THEN [@ EXCEPT !.resumable = TRUE]
                    ELSE IF how = "close_4004" THEN [@ EXCEPT !.resumable = FALSE, !.run = FALSE]
                    ELSE IF how = "raise" THEN Captured(X, @)
                    ELSE @]
            /\ ws' = [ws EXCEPT ![X].st =
                    IF here /\ how \in {"lost", "close_4004"} THEN "lost" ELSE @]
            /\ thr' = [thr EXCEPT ![X].threads[i].pc =
                    IF how = "ack" THEN "test"
                    ELSE IF how = "raise" THEN "raised"
                    ELSE "exit"]
            /\ hist' = [hist EXCEPT ![X] = IF here /\ how # "ack" THEN Caused(X) ELSE @]
    /\ UNCHANGED <<buf, relayVars, poll, nInputs, main, inflator, fmt>>

\* Gateway.receiver, lines 348-349
receiver_After(X, i) ==
    /\ At(X, i, "receiver", "exit")
    /\ gw' = [gw EXCEPT ![X].reconnect_requested = TRUE]
    /\ thr' = [thr EXCEPT ![X].threads[i].pc = "last"]
    /\ UNCHANGED <<ws, threadsRest>>

\* Gateway.receiver, line 350, and the thread's end
receiver_Last(X, i) ==
    /\ At(X, i, "receiver", "last")
    /\ gw' = [gw EXCEPT ![X].heartbeat_running = FALSE]
    /\ thr' = [thr EXCEPT ![X].threads[i].pc = "dead"]
    /\ UNCHANGED <<ws, threadsRest>>

\* Gateway.send_heartbeat, lines 356-357
send_heartbeat_Start(X, i) ==
    /\ At(X, i, "send_heartbeat", "start")
    /\ gw' = [gw EXCEPT ![X].heartbeat_running = TRUE, ![X].heartbeat_received = TRUE]
    /\ thr' = [thr EXCEPT ![X].threads[i].pc = "loop"]
    /\ UNCHANGED <<ws, threadsRest>>

\* Gateway.send_heartbeat, lines 360-373: the while test and an iteration in
\* which the interval has elapsed
send_heartbeat_Loop(X, i) ==
    /\ At(X, i, "send_heartbeat", "loop")
    /\ IF HeartbeatTest(gw[X])
       THEN \E outcome \in SendOutcomes(ws[X]) :
                IF outcome = "os_error"
                THEN /\ thr' = [thr EXCEPT ![X].threads[i].pc = "raised"]
                     /\ gw' = gw
                     /\ hist' = [hist EXCEPT ![X] = Caused(X)]
                ELSE LET r == AfterHeartbeat(gw[X], outcome)
                     IN  /\ thr' = [thr EXCEPT ![X].threads[i].pc = r.pc]
                         /\ gw' = [gw EXCEPT ![X] = r.g]
                         /\ hist' = [hist EXCEPT ![X] =
                                IF outcome # "ok" \/ r.pc = "exit" THEN Caused(X) ELSE @]
       ELSE /\ thr' = [thr EXCEPT ![X].threads[i].pc = "exit"]
            /\ gw' = gw
            /\ hist' = hist
    /\ UNCHANGED <<ws, buf, relayVars, poll, nInputs, main, inflator, fmt>>

\* Gateway.send_heartbeat, lines 374-375
send_heartbeat_After(X, i) ==
    /\ At(X, i, "send_heartbeat", "exit")
    /\ gw' = [gw EXCEPT ![X].reconnect_requested = TRUE]
    /\ thr' = [thr EXCEPT ![X].threads[i].pc = "dead"]
    /\ UNCHANGED <<ws, threadsRest>>

\* thread_guard that starts a reconnect task for every request
thread_guard_NoAliveTest(X) ==
    /\ thr[X].guard = "loop"
    /\ IF ~gw[X].run
       THEN /\ thr' = [thr EXCEPT ![X].guard = "dead"]
            /\ gw' = gw
       ELSE /\ gw[X].reconnect_requested
            /\ gw' = [gw EXCEPT ![X].reconnect_requested = FALSE]
            /\ thr' = IF MayStart(X)
                      THEN [thr EXCEPT ![X].threads = Started(@, "reconnect", "begin"),
                                       ![X].reconnect_thread = Len(thr[X].threads) + 1]
                      ELSE thr
    /\ UNCHANGED <<ws, threadsRest>>

\* Gateway.thread_guard, lines 88-94: a turn of the loop that finds a request
\* (or run false)
thread_guard(X) ==
    /\ thr[X].guard = "loop"
    /\ IF ~gw[X].run
       THEN /\ thr' = [thr EXCEPT ![X].guard = "dead"]
            /\ gw' = gw
       ELSE /\ gw[X].reconnect_requested
            /\ gw' = [gw EXCEPT ![X].reconnect_requested = FALSE]
            /\ thr' = IF ~is_alive(X, thr[X].reconnect_thread) /\ MayStart(X)
                      THEN [thr EXCEPT ![X].threads = Started(@, "reconnect", "begin"),
                                       ![X].reconnect_thread = Len(thr[X].threads) + 1]
                      ELSE thr
    /\ UNCHANGED <<ws, threadsRest>>

\* Gateway.reconnect, lines 439-441
reconnect_Begin(X, i) ==
    /\ At(X, i, "reconnect", "begin")
    /\ IF gw[X].resumable
       THEN /\ gw' = [gw EXCEPT ![X].resumable = FALSE]
            /\ thr' = [thr EXCEPT ![X].threads[i].pc = "resume_close"]
       ELSE /\ gw' = gw
            /\ thr' = [thr EXCEPT ![X].threads[i].pc = "clear_wait"]
    /\ UNCHANGED <<ws, threadsRest>>

\* Gateway.resume, lines 407-408
reconnect_ResumeClose(X, i) ==
    /\ At(X, i, "reconnect", "resume_close")
    /\ ws' = [ws EXCEPT ![X].st = "closed"]
    /\ thr' = [thr EXCEPT ![X].threads[i].pc = "resume_open"]
    /\ UNCHANGED <<gw, threadsRest>>

\* threads of reconnect after WebSocketAddressException, lines 461-465
AddressHandlerOf(X, i) ==
    IF ~gw[X].wait /\ MayStart(X)
    THEN [thr[X] EXCEPT !.threads = Started([@ EXCEPT ![i].pc = "dead"], "wait_online", "start")]
    ELSE [thr[X] EXCEPT !.threads[i].pc = "dead"]

\* how the frame read after op 6 ends resume: an op other than 9, 9, or an
\* exception resume does not catch
ResumeEnds == {"resumed", "nine", "raise"}

\* Gateway.resume, lines 409-431: the new socket, HELLO, op 6, the frame after
reconnect_Resume(X, i) ==
    /\ At(X, i, "reconnect", "resume_open")
    /\ \E outcome \in ConnectOutcomes, end \in ResumeEnds :
        IF outcome = "ok"
        THEN /\ ws' = [ws EXCEPT ![X] = Opened(@, ConnectUrl(gw[X], TRUE))]
             /\ thr' = [thr EXCEPT ![X].threads[i].pc =
                            IF end = "resumed" THEN "clear_wait"
                            ELSE IF end = "nine" THEN "identify"
                            ELSE "raised"]
             /\ nInputs' = nInputs
        ELSE /\ nInputs < MaxInputs
             /\ nInputs' = nInputs + 1
             /\ ws' = [ws EXCEPT ![X].st = "closed"]
             /\ thr' = [thr EXCEPT ![X] =
                            IF outcome = "bad_status"
                            THEN [@ EXCEPT !.threads[i].pc = "identify"]
                            ELSE AddressHandlerOf(X, i)]
    /\ UNCHANGED <<gw, buf, relayVars, hist, poll, main, inflator, fmt>>

\* Gateway.reconnect, lines 443-451
reconnect_Identify(X, i) ==
    /\ At(X, i, "reconnect", "identify")
    /\ \E outcome \in ConnectOutcomes :
        IF outcome = "ok"
        THEN /\ ws' = [ws EXCEPT ![X] = Opened(@, ConnectUrl(gw[X], FALSE))]
             /\ thr' = [thr EXCEPT ![X].threads[i].pc = "clear_wait"]
             /\ nInputs' = nInputs
        ELSE /\ nInputs < MaxInputs
             /\ nInputs' = nInputs + 1
             /\ ws' = [ws EXCEPT ![X].st = "closed"]
             /\ thr' = [thr EXCEPT ![X] =
                            IF outcome = "bad_status"
                            THEN [@ EXCEPT !.threads[i].pc = "raised"]
                            ELSE AddressHandlerOf(X, i)]
    /\ gw' = [gw EXCEPT ![X].ready = FALSE]
    /\ UNCHANGED <<buf, relayVars, hist, poll, main, inflator, fmt>>

\* Gateway.reconnect, line 452
reconnect_ClearWait(X, i) ==
    /\ At(X, i, "reconnect", "clear_wait")
    /\ gw' = [gw EXCEPT ![X].wait = FALSE]
    /\ thr' = [thr EXCEPT ![X].threads[i].pc = "restart_receiver"]
    /\ UNCHANGED <<ws, threadsRest>>

\* Gateway.reconnect, lines 454-456
reconnect_RestartReceiver(X, i) ==
    /\ At(X, i, "reconnect", "restart_receiver")
    /\ thr' = [thr EXCEPT ![X] =
                LET t == [@ EXCEPT !.threads[i].pc = "restart_heartbeat"]
                IN  IF ~is_alive(X, thr[X].receiver_thread) /\ MayStart(X)
                    THEN [t EXCEPT !.threads = Started(@, "receiver", "start"),
                                   !.receiver_thread = Len(thr[X].threads) + 1]
                    ELSE t]
    /\ UNCHANGED <<gw, ws, threadsRest>>

\* Gateway.reconnect, lines 457-459
reconnect_RestartHeartbeat(X, i) ==
    /\ At(X, i, "reconnect", "restart_heartbeat")
    /\ thr' = [thr EXCEPT ![X] =
                LET t == [@ EXCEPT !.threads[i].pc = "last"]
                IN  IF ~is_alive(X, thr[X].heartbeat_thread) /\ MayStart(X)
                    THEN [t EXCEPT !.threads = Started(@, "send_heartbeat", "start"),
                                   !.heartbeat_thread = Len(thr[X].threads) + 1]
                    ELSE t]
    /\ UNCHANGED <<gw, ws, threadsRest>>

\* Gateway.reconnect, line 460: the log line, and the thread's end
reconnect_Last(X, i) ==
    /\ At(X, i, "reconnect", "last")
    /\ thr' = [thr EXCEPT ![X].threads[i].pc = "dead"]
    /\ hist' = [hist EXCEPT ![X] = Completed(X)]
    /\ UNCHANGED <<gw, ws, buf, relayVars, poll, nInputs, main, inflator, fmt>>

\* Gateway.wait_online, line 470
wait_online_Start(X, i) ==
    /\ At(X, i, "wait_online", "start")
    /\ gw' = [gw EXCEPT ![X].wait = TRUE]
    /\ thr' = [thr EXCEPT ![X].threads[i].pc = "loop"]
    /\ UNCHANGED <<ws, threadsRest>>

\* Gateway.wait_online, lines 471-473: a turn that changes something, or the end
wait_online_Loop(X, i) ==
    /\ At(X, i, "wait_online", "loop")
    /\ IF gw[X].run /\ gw[X].wait
       THEN /\ ~gw[X].reconnect_requested
            /\ gw' = [gw EXCEPT ![X].reconnect_requested = TRUE]
            /\ thr' = thr
       ELSE /\ gw' = gw
            /\ thr' = [thr EXCEPT ![X].threads[i].pc = "dead"]
    /\ UNCHANGED <<ws, threadsRest>>

\* Gateway.connect has returned for session A: receiver and heartbeater are
\* started (lines 140-143), reconnect_thread is an unstarted Thread (144)
ThreadsInit ==
    /\ RelayIdle
    /\ gw = [X \in Sides |-> NewGateway]
    /\ thr = [X \in Sides |->
                [threads |-> IF X = "A"
                             THEN Started(Started(<<>>, "receiver", "start"),
                                          "send_heartbeat", "start")
                             ELSE <<>>,
                 receiver_thread |-> IF X = "A" THEN 1 ELSE 0,
                 heartbeat_thread |-> IF X = "A" THEN 2 ELSE 0,
                 reconnect_thread |-> 0,
                 guard |-> IF X = "A" THEN "loop" ELSE "none"]]
    /\ ws = [X \in Sides |->
                IF X = "A" THEN [id |-> 1, st |-> "open", url |-> "gateway_url", read |-> TRUE]
                ELSE NoSocket]
    /\ hist = [X \in Sides |-> NoNotes]
    /\ poll = [X \in Sides |-> NoPolls]
    /\ nInputs = 0
    /\ main = MainIdle
    /\ inflator = InStream("A", 1)
    /\ fmt = NoCall

ThreadsNext ==
    \/ \E X \in Sides : thread_guard(X)
    \/ \E X \in Sides : \E i \in 1..MaxThreads :
            \/ receiver_Start(X, i)
            \/ receiver_Test(X, i)
            \/ receiver_Recv(X, i)
            \/ receiver_After(X, i)
            \/ receiver_Last(X, i)
            \/ send_heartbeat_Start(X, i)
            \/ send_heartbeat_Loop(X, i)
            \/ send_heartbeat_After(X, i)
            \/ reconnect_Begin(X, i)
            \/ reconnect_ResumeClose(X, i)
            \/ reconnect_Resume(X, i)
            \/ reconnect_Identify(X, i)
            \/ reconnect_ClearWait(X, i)
            \/ reconnect_RestartReceiver(X, i)
            \/ reconnect_RestartHeartbeat(X, i)
            \/ reconnect_Last(X, i)
            \/ wait_online_Start(X, i)
            \/ wait_online_Loop(X, i)

ThreadsSpec == ThreadsInit /\ [][ThreadsNext]_vars

\* C34: single worker per role.  In every reachable state a session has at
\* most one live reconnect task, at most one live receiver thread and at most
\* one live heartbeater thread, each of them the thread its attribute
\* (reconnect_thread, receiver_thread, heartbeat_thread) stands for; and a
\* turn of thread_guard that finds a request while a reconnect task is alive
\* clears the request and starts no thread.
C34_SingleWorker ==
    /\ [](\A X \in Sides :
            /\ Cardinality(Live(X, "reconnect")) <= 1
            /\ Cardinality(Live(X, "receiver")) <= 1
            /\ Cardinality(Live(X, "send_heartbeat")) <= 1
            /\ Live(X, "reconnect") \subseteq {thr[X].reconnect_thread}
            /\ Live(X, "receiver") \subseteq {thr[X].receiver_thread}
            /\ Live(X, "send_heartbeat") \subseteq {thr[X].heartbeat_thread})
    /\ [][\A X \in Sides :
            (/\ gw[X].run /\ gw[X].reconnect_requested /\ ~gw'[X].reconnect_requested
             /\ Live(X, "reconnect") # {}) =>
                thr'[X] = thr[X]]_vars

\* C34 witness: a second reconnect task of the session is at work, started
\* after the first had ended, beside a receiver and a heartbeater it did not
\* have to start, and a request is pending that thread_guard will clear
C34_Witness ==
    \E X \in Sides :
        /\ Cardinality({i \in DOMAIN thr[X].threads : thr[X].threads[i].target = "reconnect"}) >= 2
        /\ Cardinality(Live(X, "reconnect")) = 1
        /\ Cardinality(Live(X, "receiver")) = 1
        /\ Cardinality(Live(X, "send_heartbeat")) = 1
        /\ gw[X].run
        /\ gw[X].reconnect_requested

\* ----------------------------------------- the threads, scheduled fairly

\* recv_data called on a socket that is closed, or on one self.ws no longer
\* stands for: it raises without waiting for the server
RecvFails(X, i) ==
    /\ At(X, i, "receiver", "recv")
    /\ ~(thr[X].threads[i].conn = ws[X].id /\ ws[X].st = "open")
    /\ receiver_Recv(X, i)

\* a step thread i of session X takes on its own: any statement but a
\* recv_data that waits for the server on an open socket
ThreadStep(X, i) ==
    \/ receiver_Start(X, i)
    \/ receiver_Test(X, i)
    \/ RecvFails(X, i)
    \/ receiver_After(X, i)
    \/ receiver_Last(X, i)
    \/ send_heartbeat_Start(X, i)
    \/ send_heartbeat_Loop(X, i)
    \/ send_heartbeat_After(X, i)
    \/ reconnect_Begin(X, i)
    \/ reconnect_ResumeClose(X, i)
    \/ reconnect_Resume(X, i)
    \/ reconnect_Identify(X, i)
    \/ reconnect_ClearWait(X, i)
    \/ reconnect_RestartReceiver(X, i)
    \/ reconnect_RestartHeartbeat(X, i)
    \/ reconnect_Last(X, i)
    \/ wait_online_Start(X, i)
    \/ wait_online_Loop(X, i)

\* every thread keeps being scheduled
ThreadsFair ==
    \A X \in Sides :
        /\ WF_vars(thread_guard(X))
        /\ \A i \in 1..MaxThreads : WF_vars(ThreadStep(X, i))

ThreadsLiveSpec == ThreadsInit /\ [][ThreadsNext]_vars /\ ThreadsFair

\* session X has no receiver at work: none was left inside its loop
ReceiverStopped(X) ==
    /\ thr[X].guard = "loop"
    /\ gw[X].run
    /\ \A i \in Live(X, "receiver") : thr[X].threads[i].pc \in {"exit", "last"}

\* a receiver inside its loop and a live heartbeater, on an open socket
Recovered(X) ==
    /\ ws[X].st = "open"
    /\ \E i \in Live(X, "receiver") : thr[X].threads[i].pc \in {"start", "test", "recv"}
    /\ Live(X, "send_heartbeat") # {}

\* what takes a behaviour out of the statement: a connect failed (the network
\* did not stay reachable), run went false, an exception ended a worker or a
\* reconnect task, or the session has started all the threads ThreadsSpec
\* follows
Excused(X) ==
    \/ nInputs > 0
    \/ ~gw[X].run
    \/ gw[X].error # None
    \/ \E i \in DOMAIN thr[X].threads : thr[X].threads[i].pc = "raised"
    \/ Len(thr[X].threads) = MaxThreads

\* C35: recovery liveness.  If a session's receiver stops while run is true
\* and every connect succeeds from then on, then with every thread scheduled
\* fairly a receiver and a heartbeater are eventually running again on an open
\* socket, whatever the order of receiver exit, heartbeater exit, thread_guard
\* turns and the reconnect task's is_alive checks.
C35_RecoveryLiveness ==
    \A X \in Sides : ReceiverStopped(X) ~> (Recovered(X) \/ Excused(X))

\* session X is recovered: a reconnect task has run to its end, the socket
\* the session has is open and has shown no disconnect cause since, and a
\* receiver is inside its loop
Settled(X) ==
    /\ hist[X].last = [ev |-> "recovered", conn |-> ws[X].id]
    /\ ws[X].st = "open"
    /\ \E i \in Live(X, "receiver") : thr[X].threads[i].pc \in {"test", "recv"}

\* in this step the session closes its socket, or opens another one to send
\* op 6 or op 2 on
Recovers(X) ==
    \/ ws[X].st # "closed" /\ ws'[X].st = "closed"
    \/ ws'[X].id # ws[X].id

\* C36: one recovery per disconnect.  Once a reconnect task has completed
\* and a receiver is running on a healthy socket, the session neither closes
\* that socket nor sends a further resume (op 6) or identify (op 2) unless a
\* new disconnect cause (a frame that ends the receiver's loop, a receive
\* error, a heartbeat that could not be sent or was not answered) has shown
\* on that socket: the flags left behind by the old receiver and the old
\* heartbeater do not start a second recovery.
C36_OneRecovery ==
    [][\A X \in Sides : Settled(X) => ~Recovers(X)]_vars

\* ------------------------------------------------- the frames a session reads

\* the payload of a frame when it is a dispatch: a JSON object with op 0 and a
\* sequence number s; <<>> for every other frame
DispatchOf(X, frame) ==
    IF frame.kind # "text" THEN <<>>
    ELSE LET dec == Decode(X, frame)
         IN  IF dec.how # "ok" THEN <<>>
             ELSE IF dec.response.op = 0 /\ "s" \in DOMAIN dec.response
                  THEN <<dec.response>>
                  ELSE <<>>

\* gateway X takes a frame from its socket in this step: the receiver's
\* recv_data (line 175), or the recv of resume that follows op 6 (424, 426)
FrameRead(X) ==
    /\ hist'[X].last # hist[X].last
    /\ hist'[X].last.ev \in {"recv", "resumed"}

\* the events of the three kinds the relay loops take from the buffer
BufferedKinds == {"MESSAGE_CREATE", "MESSAGE_UPDATE", "MESSAGE_DELETE"}

\* C37: no event is lost across a resume.  Every dispatch frame the session
\* takes from its socket, the frame that resume reads right after it sent
\* op 6 and the frames the receiver reads on the resumed connection among
\* them, is stored in sequence and, when it is a MESSAGE_CREATE,
\* MESSAGE_UPDATE or MESSAGE_DELETE, appended to the event buffer
C37_NoEventLost ==
    [][\A X \in Sides :
        FrameRead(X) =>
            LET read == hist'[X].last
                d == DispatchOf(X, read.frame)
            IN  d # <<>> =>
                    /\ gw'[X].sequence = d[1].s
                    /\ d[1].t \in BufferedKinds =>
                            buf'[X] = Append(buf[X], ReceiverEvent(d[1], read.n))]_vars

\* ------------------------------------------------- the attempt that ends the wait

\* the reconnect task of gateway X, standing before line 452, has opened no
\* socket: it found resumable False at line 440, so resume was not called
\* and code stayed None
OpenedNoSocket(X) ==
    /\ thr[X].reconnect = "finish"
    /\ hist[X].last = [ev |-> "no_resume", conn |-> ws[X].id]

\* C38: wait is cleared only by a real connection.  wait goes from True to
\* False nowhere but at line 452 of a reconnect task, and a task that ran
\* with resumable False, and so opened no socket, leaves wait as it found it
C38_WaitClearedByConnection ==
    [][\A X \in Sides :
        /\ (gw[X].wait /\ ~gw'[X].wait) => ReconnectFinish(X)
        /\ (ReconnectFinish(X) /\ OpenedNoSocket(X)) => gw'[X].wait = gw[X].wait]_vars

\* ------------------------------------------------- the delete of a mirror

\* entry i of relay loop Y's history is a MESSAGE_DELETE for a message the
\* bridge created on backend Y
MirrorDelete(Y, i) ==
    /\ log[Y][i].evt.op = "MESSAGE_DELETE"
    /\ log[Y][i].evt.d.id \in Mirrors(Y)

\* the bridge itself deleted message id of backend Y: relay loop X called
\* send_delete_message for it and the call returned True
DeletedByBridge(Y, id) ==
    \E j \in DOMAIN log[Other(Y)] :
        LET call == log[Other(Y)][j].call
        IN  /\ call # <<>>
            /\ call[1].fn = "send_delete_message"
            /\ call[1].message_id = id
            /\ call[1].ret = TRUE

\* C39: deletes of mirrors do not propagate back.  When relay loop Y takes a
\* MESSAGE_DELETE whose id is that of a message the bridge created on Y,
\* deleted by the bridge or by a person, the event passes the filter (it has
\* no user_id), yet no REST call is made (backend X's messages, id counter
\* and gateway buffer stay as they are) and neither pair store changes
C39_MirrorDeleteStops ==
    [][\A Y \in Sides :
        (/\ Took(Y)
         /\ Last(log'[Y]).evt.op = "MESSAGE_DELETE"
         /\ Last(log'[Y]).evt.d.id \in Mirrors(Y)) =>
            LET ent == Last(log'[Y])
                X == Other(Y)
            IN  /\ "user_id" \notin DOMAIN ent.evt.d
                /\ PassesFilter(Y, ent.evt.d)
                /\ ent.call = <<>>
                /\ db' = db
                /\ msgs'[X] = msgs[X]
                /\ nextId'[X] = nextId[X]
                /\ buf'[X] = buf[X]]_vars

\* C39 witness: relay loop Y has taken the MESSAGE_DELETE of a mirror that
\* the bridge had deleted itself, after the original was deleted on the
\* other backend, and has made no call for it
C39_Witness ==
    \E Y \in Sides : \E i \in DOMAIN log[Y] :
        /\ MirrorDelete(Y, i)
        /\ DeletedByBridge(Y, log[Y][i].evt.d.id)
        /\ log[Y][i].call = <<>>

====
